---- MODULE Spec2Model ----
(***************************************************************************)
(* A model of pymidi2: the client transport session of Network MIDI 2.0    *)
(* (pymidi2/transport.py, pymidi2/udp.py) and the topology discovery of a  *)
(* UMP endpoint (pymidi2/endpoint.py), the host of netmidi2/host.py, the   *)
(* command framing of pymidi2/udp.py and the UMP codec of pymidi2/ump.py.  *)
(*                                                                         *)
(* Bytes are naturals in 0..255, byte strings are sequences of bytes, a    *)
(* 32-bit word is the sequence of its four bytes in big-endian order.      *)
(***************************************************************************)
EXTENDS Integers, Sequences, FiniteSets, TLC

VARIABLES
    \* ---- UDPTransport (transport.py:152-161) ----
    auth,                   \* UDPTransport.auth: none, shared secret, or (user, password)
    _transport_connected,   \* Transport._transport_connected (getattr default False)
    session_established,    \* UDPTransport.session_established
    sock,                   \* "none" (attribute not set), "open", "closed"
    tx_seq,                 \* UDPTransport.tx_seq
    rx_queue,               \* UDPTransport.rx_queue
    \* ---- the calling thread ----
    pc,                     \* "idle", or the blocking call it is inside of
    raised,                 \* exception raised by the last finished call, or "none"
    \* ---- observation of the wire and of the caller ----
    txcount,                \* number of command packets sent, per command code
    last_tx,                \* the last command packet handed to sendto()
    last_op,                \* what the last step did
    hook,                   \* the last of _connect/_disconnect run, and its outcome
    returned,               \* the messages returned by recv() so far, in order
    claimed,                \* decodable UMP_DATA of every datagram recv() read
    dispatched,             \* decodable UMP_DATA before the first failure of each
    \* ---- UMPEndpoint (endpoint.py:61-67) ----
    function_blocks,        \* UMPEndpoint.function_blocks: sequence of slots
    name,                   \* UMPEndpoint.name
    _name_complete,         \* UMPEndpoint._name_complete
    e_pc,                   \* "idle", or the loop of discover() the caller is in
    e_wait,                 \* the wait_for_all_names argument of discover()
    e_sent,                 \* the messages the current discover() has sent
    e_raised,               \* exception raised by the last dispatch(), or "none"
    e_op,                   \* the last endpoint operation and its argument
    e_hist,                 \* per name: what its notifications should amount to
    \* ---- MIDIHost (host.py:9-76) ----
    sessions,               \* MIDIHost.sessions: address -> MIDISession, or no entry
    h_pc,                   \* "running", or "stopped" once mainloop() was left
    h_raised,               \* the exception that left mainloop(), or "none"
    h_log,                  \* what main() did with each command of the last datagram
    h_hist,                 \* per address: INVITATION dispatched/accepted since the last BYE
    \* ---- framing (udp.py:75-138) ----
    f_cmds,                 \* a list of command packets
    f_rest,                 \* bytes that follow the first packet in a buffer
    f_buf,                  \* a byte string as it came from the network
    f_args,                 \* the arguments of the last CommandPacket(...) call
    f_made,                 \* what that call returned or raised
    f_parsed,               \* what the last CommandPacket.parse returned or raised
    f_packet,               \* what the last MIDIUDPPacket.parse returned or raised
    \* ---- the UMP codec (ump.py) ----
    u_msg,                  \* the message encode() was last called on, or none
    u_enc,                  \* what that encode() returned or raised
    u_in,                   \* the words UMP.parse was last called on
    u_dec,                  \* what that UMP.parse returned or raised
    \* ---- the device discover() talks to ----
    dev,                    \* its number of function blocks and its names
    d_seen,                 \* how many of the requests of e_sent it has answered
    d_flight                \* its answers on their way, stream by stream

tvars == <<auth, _transport_connected, session_established, sock, tx_seq,
           rx_queue, pc, raised, txcount, last_tx, last_op, hook,
           returned, claimed, dispatched>>
evars == <<function_blocks, name, _name_complete, e_pc, e_wait, e_sent,
           e_raised, e_op, e_hist>>
hvars == <<sessions, h_pc, h_raised, h_log, h_hist>>
fvars == <<f_cmds, f_rest, f_buf, f_args, f_made, f_parsed, f_packet>>
uvars == <<u_msg, u_enc, u_in, u_dec>>
dvars == <<dev, d_seen, d_flight>>
vars == <<tvars, evars, hvars, fvars, uvars, dvars>>

\* ------------------------------------------------------------------------
\* Bounds
\* ------------------------------------------------------------------------
MaxCmds == 2        \* command packets per received datagram
MaxTx == 4          \* packets sent before the environment stops driving
MaxRet == 3         \* messages recv() returns before the caller stops
MaxBlocks == 1      \* function blocks an endpoint declares; block ids 0..MaxBlocks
MaxName == 2        \* payloads a name is built from before the device stops

\* ------------------------------------------------------------------------
\* udp.py: command codes, BYE reasons, command packets
\* ------------------------------------------------------------------------
CommandCode ==
    {"INVITATION", "INVITATION_WITH_AUTH", "INVITATION_WITH_USER_AUTH",
     "INVITATION_REPLY_ACCEPTED", "INVITATION_REPLY_PENDING",
     "INVITATION_REPLY_AUTH_REQUIRED", "INVITATION_REPLY_USER_AUTH_REQUIRED",
     "PING", "PING_REPLY", "RETRANSMIT_REQUEST", "RETRANSMIT_ERROR",
     "SESSION_RESET", "SESSION_RESET_REPLY", "NAK", "BYE", "BYE_REPLY",
     "UMP_DATA"}

USER_TERMINATED == 1
INVITATION_CANCELLED == 128
ClientCapability_NONE == 0

\* The ByeReason members that exist, by name (udp.py:54-72).
ByeReasonNames ==
    {"UNKNOWN", "USER_TERMINATED", "POWER_DOWN", "TOO_MANY_MISSING_UMP",
     "TIMEOUT", "SESSION_NOT_ESTABLISHED", "NO_PENDING_SESSION",
     "PROTOCOL_ERROR", "TOO_MANY_OPENED_SESSIONS",
     "INVITATION_WITH_AUTH_REJECTED", "INVITATION_REJECTED_NOT_ACCEPTED",
     "INVITATION_REJECTED_AUTH_FAILED", "INVITATION_REJECTED_USER_NOT_FOUND",
     "NO_MATCHING_AUTH_METHOD", "INVITATION_CANCELLED"}

CommandPacket(c, sd, pl) == [command |-> c, specific_data |-> sd, payload |-> pl]

NoPacket == [command |-> "NONE", specific_data |-> 0, payload |-> <<>>]

\* The outcome of a parse: the exception raised ("none" if none), the
\* packets parsed and the bytes left over.
Parsed(exc, commands, rest) == [exc |-> exc, commands |-> commands, rest |-> rest]
NoParse == Parsed("unparsed", <<>>, <<>>)

\* CommandPacket.__bytes__ packs the header with struct "!BBH": the
\* auxiliary field must fit 16 bits and the word count 8 bits.
Encodable(cmd) ==
    /\ cmd.specific_data \in 0..65535
    /\ Len(cmd.payload) \div 4 \in 0..255

\* ------------------------------------------------------------------------
\* udp.py: framing
\* ------------------------------------------------------------------------
\* The value of each member of CommandCode (udp.py:35-51).
CommandCodeValue(c) ==
    CASE c = "INVITATION" -> 1
      [] c = "INVITATION_WITH_AUTH" -> 2
      [] c = "INVITATION_WITH_USER_AUTH" -> 3
      [] c = "INVITATION_REPLY_ACCEPTED" -> 16
      [] c = "INVITATION_REPLY_PENDING" -> 17
      [] c = "INVITATION_REPLY_AUTH_REQUIRED" -> 18
      [] c = "INVITATION_REPLY_USER_AUTH_REQUIRED" -> 19
      [] c = "PING" -> 32
      [] c = "PING_REPLY" -> 33
      [] c = "RETRANSMIT_REQUEST" -> 128
      [] c = "RETRANSMIT_ERROR" -> 129
      [] c = "SESSION_RESET" -> 130
      [] c = "SESSION_RESET_REPLY" -> 131
      [] c = "NAK" -> 143
      [] c = "BYE" -> 240
      [] c = "BYE_REPLY" -> 241
      [] c = "UMP_DATA" -> 255

\* CommandPacket.__bytes__ of a packet that is Encodable:
\* struct.pack("!BBH", command, words, aux) and the payload.
CommandPacket_bytes(cmd) ==
    <<CommandCodeValue(cmd.command), Len(cmd.payload) \div 4,
      cmd.specific_data \div 256, cmd.specific_data % 256>> \o cmd.payload

\* MIDIUDPPacket.__bytes__: b"MIDI" and the commands, one after the other.
Magic == <<77, 73, 68, 73>>

RECURSIVE Join(_)
Join(cmds) ==
    IF cmds = <<>> THEN <<>>
    ELSE CommandPacket_bytes(Head(cmds)) \o Join(Tail(cmds))

MIDIUDPPacket_bytes(cmds) == Magic \o Join(cmds)

\* A constructor that accepts every payload.
post_init_unchecked(payload) == "none"

\* CommandPacket.__post_init__: the exception it raises, "none" if none.
__post_init__(payload) ==
    IF Len(payload) % 4 # 0 THEN "ValueError" ELSE "none"

\* CommandPacket(command, specific_data, payload): the dataclass stores the
\* fields and runs __post_init__; the packet exists only if that returns.
CommandPacket_init(c, sd, pl) ==
    IF __post_init__(pl) # "none" THEN Parsed(__post_init__(pl), <<>>, <<>>)
    ELSE Parsed("none", <<CommandPacket(c, sd, pl)>>, <<>>)

\* The H of struct.unpack("!BBH"), read with the low byte first.
unpack_H_le(hi, lo) == lo * 256 + hi

\* The H of struct.unpack("!BBH"): 16 bits in network byte order.
unpack_H(hi, lo) == hi * 256 + lo

\* CommandPacket.parse: (packet, rest), or the exception raised.
CommandPacket_parse(buf) ==
    IF Len(buf) < 4 THEN Parsed("struct.error", <<>>, <<>>)
    ELSE LET payload == SubSeq(buf, 5, Len(buf))
             payload_length == 4 * buf[2]
             specific_data == unpack_H(buf[3], buf[4])
         IN IF Len(payload) < payload_length
            THEN Parsed("ValueError", <<>>, <<>>)
            ELSE IF \A c \in CommandCode : CommandCodeValue(c) # buf[1]
            THEN Parsed("ValueError", <<>>, <<>>)
            ELSE LET res == CommandPacket_init(
                        CHOOSE c \in CommandCode : CommandCodeValue(c) = buf[1],
                        specific_data, SubSeq(payload, 1, payload_length))
                 IN IF res.exc # "none" THEN res
                    ELSE Parsed("none", res.commands,
                                SubSeq(payload, payload_length + 1, Len(payload)))

\* A loop that stops at a packet it cannot parse and keeps those before it.
RECURSIVE parse_commands_lenient(_, _)
parse_commands_lenient(buf, commands) ==
    IF buf = <<>> THEN Parsed("none", commands, <<>>)
    ELSE LET r == CommandPacket_parse(buf)
         IN IF r.exc # "none" THEN Parsed("none", commands, <<>>)
            ELSE parse_commands_lenient(r.rest, commands \o r.commands)

\* The loop of MIDIUDPPacket.parse (lines 134-137): while buf: parse one.
RECURSIVE parse_commands(_, _)
parse_commands(buf, commands) ==
    IF buf = <<>> THEN Parsed("none", commands, <<>>)
    ELSE LET r == CommandPacket_parse(buf)
         IN IF r.exc # "none" THEN r
            ELSE parse_commands(r.rest, commands \o r.commands)

\* MIDIUDPPacket.parse
MIDIUDPPacket_parse(buf) ==
    IF SubSeq(buf, 1, IF Len(buf) < 4 THEN Len(buf) ELSE 4) # Magic
    THEN Parsed("ValueError", <<>>, <<>>)
    ELSE parse_commands(SubSeq(buf, 5, Len(buf)), <<>>)

\* ------------------------------------------------------------------------
\* Strings and digests
\* ------------------------------------------------------------------------
\* A str is a sequence of code points; str.encode() is UTF-8.
RECURSIVE encode(_)
encode(s) ==
    IF s = <<>> THEN <<>>
    ELSE LET cp == Head(s)
         IN (IF cp < 128 THEN <<cp>>
             ELSE <<192 + (cp \div 64), 128 + (cp % 64)>>) \o encode(Tail(s))

\* hashlib.sha256(data).digest(): 32 bytes that depend on every byte of the
\* input (of up to 32 bytes), on its position and on the length.
sha256(data) ==
    [i \in 1..32 |->
        IF data = <<>> THEN i
        ELSE (data[((i - 1) % Len(data)) + 1] * 7 + i + 13 * Len(data)) % 256]

RECURSIVE Zeros(_)
Zeros(n) == IF n <= 0 THEN <<>> ELSE <<0>> \o Zeros(n - 1)

\* bytes.ljust(width, b"\x00")
ljust(b, width) == b \o Zeros(width - Len(b))

\* bytes.rstrip(b"\x00")
RECURSIVE rstrip(_)
rstrip(b) ==
    IF b # <<>> /\ b[Len(b)] = 0 THEN rstrip(SubSeq(b, 1, Len(b) - 1)) ELSE b

\* bytes.decode("utf-8") for code points below 2048: the code points, or
\* <<-1>> where Python raises UnicodeDecodeError.
RECURSIVE decode_utf8(_)
decode_utf8(b) ==
    IF b = <<>> THEN <<>>
    ELSE IF b[1] < 128
    THEN LET rest == decode_utf8(Tail(b))
         IN IF rest = <<-1>> THEN rest ELSE <<b[1]>> \o rest
    ELSE IF b[1] \in 194..223 /\ Len(b) >= 2 /\ b[2] \in 128..191
    THEN LET rest == decode_utf8(SubSeq(b, 3, Len(b)))
         IN IF rest = <<-1>> THEN rest
            ELSE <<(b[1] - 192) * 64 + (b[2] - 128)>> \o rest
    ELSE <<-1>>

\* bytes.decode("ascii")
decode_ascii(b) ==
    IF \A i \in 1..Len(b) : b[i] < 128 THEN b ELSE <<-1>>

\* ------------------------------------------------------------------------
\* ump.py: decoding of the payload of a UMP_DATA command
\* ------------------------------------------------------------------------
MessageType == {0, 1, 2, 3, 4, 5, 13, 15}

Utility_Status == {0, 1, 2, 3, 4}

\* UTILITY_BY_STATUS: only NOOP, JR_CLOCK and JR_TIMESTAMP have a class.
UTILITY_BY_STATUS(status) ==
    CASE status = 0 -> "NoOp"
      [] status = 1 -> "JRClock"
      [] status = 2 -> "JRTimestamp"
      [] OTHER -> "KeyError"

UMPValue(cls, fields) == [cls |-> cls, fields |-> fields]

\* A word that is not there.
NoWord == <<0, 0, 0, 0>>

\* An exception raised in place of a value.
Raise(exc) == [cls |-> exc, fields |-> <<>>]

Exceptions ==
    {"ValueError", "IndexError", "KeyError", "struct.error", "AttributeError",
     "OSError", "SharedSecretRequiredError", "UserPasswordRequiredError",
     "TypeError", "RecursionError", "UnicodeDecodeError", "UnicodeEncodeError"}

IsError(v) == v.cls \in Exceptions

\* Utility.parse: status is bits 23..20 of word 0, the timestamp of JRClock
\* and JRTimestamp is words[0] & 0xFFFFF.
Utility_parse(words) ==
    LET w == words[1]
        status == w[2] \div 16
        timestamp == (w[2] % 16) * 65536 + w[3] * 256 + w[4]
    IN IF status \notin Utility_Status THEN Raise("ValueError")
       ELSE LET cls == UTILITY_BY_STATUS(status)
            IN IF cls = "KeyError" THEN Raise("KeyError")
               ELSE IF cls = "NoOp" THEN UMPValue(cls, <<>>)
               ELSE UMPValue(cls, <<timestamp>>)

\* (b >> k) & 1, as a truth value
Bit(b, k) == (b \div (2 ^ k)) % 2 = 1

\* SystemRealTime.Status
SystemRealTime_Status == {1, 2, 3, 6, 8, 10, 11, 12, 14, 15}

\* SYSTEM_RT_BY_STATUS.get(status, cls), cls being SystemRealTime
SYSTEM_RT_BY_STATUS(status) ==
    CASE status = 1 -> "MIDITimeCode"
      [] status = 2 -> "SongPositionPointer"
      [] OTHER -> "SystemRealTime"

\* SystemRealTime.parse: status is (words[0] >> 16) & 0xFF.  For a status
\* without a class of its own the class looked up is SystemRealTime, whose
\* parse is this function: the call repeats with the same arguments until
\* the interpreter raises RecursionError.
SystemRealTime_parse(words) ==
    LET w == words[1]
        status == w[2]
    IN IF status \notin SystemRealTime_Status THEN Raise("ValueError")
       ELSE LET cls == SYSTEM_RT_BY_STATUS(status)
            IN CASE cls = "MIDITimeCode" ->
                      UMPValue(cls, <<(w[3] \div 16) % 8, w[3] % 16>>)
                 [] cls = "SongPositionPointer" ->
                      UMPValue(cls, <<(w[4] % 128) * 128 + (w[3] % 128)>>)
                 [] cls = "SystemRealTime" -> Raise("RecursionError")

\* MIDI1ChannelVoice.Status
MIDI1ChannelVoice_Status == 8..14

MIDI1_BY_STATUS(status) ==
    CASE status = 8 -> "MIDI1NoteOff"
      [] status = 9 -> "MIDI1NoteOn"
      [] status = 11 -> "MIDI1ControlChange"
      [] status = 12 -> "MIDI1ProgramChange"
      [] status = 14 -> "MIDI1PitchBend"
      [] OTHER -> "KeyError"

\* The 14 bits of a pitch bend taken as they are, without a sign.
MIDI1PitchBend_unsigned(w) == (w[4] % 128) * 128 + (w[3] % 128)

\* MIDI1PitchBend.parse: the value of word 0
MIDI1PitchBend_parse(w) ==
    LET lsb == w[3] % 128
        msb == w[4] % 128
        value == msb * 128 + lsb
    IN IF (value \div 8192) % 2 = 1 THEN value - 16384 ELSE value

\* MIDI1ChannelVoice.parse and the parse of the class of the status
MIDI1ChannelVoice_parse(words) ==
    LET w == words[1]
        group == w[1] % 16
        status == w[2] \div 16
        channel == w[2] % 16
    IN IF status \notin MIDI1ChannelVoice_Status THEN Raise("ValueError")
       ELSE LET cls == MIDI1_BY_STATUS(status)
            IN CASE cls = "KeyError" -> Raise("KeyError")
                 [] cls \in {"MIDI1NoteOff", "MIDI1NoteOn", "MIDI1ControlChange"} ->
                      UMPValue(cls, <<group, channel, w[3] % 128, w[4] % 128>>)
                 [] cls = "MIDI1ProgramChange" ->
                      UMPValue(cls, <<group, channel, w[4] % 128>>)
                 [] cls = "MIDI1PitchBend" ->
                      UMPValue(cls, <<group, channel, MIDI1PitchBend_parse(w)>>)

\* MIDI2ChannelVoice.Status
MIDI2ChannelVoice_Status == (0..15) \ {7}

MIDI2_BY_STATUS(status) ==
    CASE status = 8 -> "MIDI2NoteOff"
      [] status = 9 -> "MIDI2NoteOn"
      [] status = 11 -> "MIDI2ControlChange"
      [] status = 12 -> "MIDI2ProgramChange"
      [] status = 14 -> "MIDI2PitchBend"
      [] OTHER -> "KeyError"

\* MIDI2ChannelVoice.parse and the parse of the class of the status.  A
\* field that takes a whole word (data, value) is kept as its four bytes.
MIDI2ChannelVoice_parse(words) ==
    LET w == words[1]
        group == w[1] % 16
        status == w[2] \div 16
        channel == w[2] % 16
    IN IF status \notin MIDI2ChannelVoice_Status THEN Raise("ValueError")
       ELSE LET cls == MIDI2_BY_STATUS(status)
            IN IF cls = "KeyError" THEN Raise("KeyError")
               ELSE IF Len(words) < 2 THEN Raise("IndexError")
               ELSE LET x == words[2]
                    IN CASE cls \in {"MIDI2NoteOff", "MIDI2NoteOn"} ->
                              UMPValue(cls, <<group, channel, w[3] % 128, w[4],
                                              x[1] * 256 + x[2], x[3] * 256 + x[4]>>)
                         [] cls = "MIDI2ControlChange" ->
                              UMPValue(cls, <<group, channel, w[3] % 128, x>>)
                         [] cls = "MIDI2ProgramChange" ->
                              UMPValue(cls, <<group, channel, x[1] % 128, Bit(w[4], 0),
                                              (x[3] % 128) * 128 + (x[4] % 128)>>)
                         [] cls = "MIDI2PitchBend" ->
                              UMPValue(cls, <<group, channel, x>>)

\* list[:n]
Take(q, n) == SubSeq(q, 1, IF n < Len(q) THEN n ELSE Len(q))

\* The bytes of q, each & 0x7F
Mask7(q) == [i \in 1..Len(q) |-> q[i] % 128]

\* Data64.parse: the data are read (words[1] included) before the status.
Data64_parse(words) ==
    IF Len(words) < 2 THEN Raise("IndexError")
    ELSE LET w == words[1]
             length == w[2] % 16
             data == Mask7(<<w[3], w[4]>> \o words[2])
         IN IF w[2] \div 16 > 3 THEN Raise("ValueError")
            ELSE UMPValue("Data64", <<w[1] % 16, w[2] \div 16, Take(data, length)>>)

\* Data128.parse
Data128_parse(words) ==
    IF Len(words) < 4 THEN Raise("IndexError")
    ELSE LET w == words[1]
             length == w[2] % 16
             data == <<w[4]>> \o words[2] \o words[3] \o words[4]
         IN IF w[2] \div 16 > 3 THEN Raise("ValueError")
            ELSE UMPValue("Data128",
                          <<w[1] % 16, w[2] \div 16, w[3], Take(data, length)>>)

\* FLEX_DATA_BY_STATUS_BANK and FlexData.StatusBank
FLEX_DATA_BY_STATUS_BANK(status_bank) ==
    CASE status_bank = 0 -> "SetupAndPerformanceEvent"
      [] status_bank = 1 -> "MetadataText"
      [] status_bank = 2 -> "PerformanceTextEvent"
      [] OTHER -> "ValueError"

\* The Status enumeration of each class of FlexData
FlexData_Status(cls) ==
    CASE cls = "SetupAndPerformanceEvent" -> {0, 1, 2, 5, 6, 16}
      [] cls = "MetadataText" -> 0..12
      [] cls = "PerformanceTextEvent" -> 0..4

\* FlexData.parse and the parse of the class of the status bank, which
\* calls cls(status=...) and leaves out group, form, address and channel:
\* the constructor raises TypeError for its missing arguments.
FlexData_parse(words) ==
    LET w == words[1]
        cls == FLEX_DATA_BY_STATUS_BANK(w[3])
    IN IF cls = "ValueError" THEN Raise("ValueError")
       ELSE IF w[4] \notin FlexData_Status(cls) THEN Raise("ValueError")
       ELSE Raise("TypeError")

\* UMPStream.Status
UMPStream_Status == {0, 1, 2, 3, 4, 5, 6, 16, 17, 18, 32, 33}

UMP_STREAM_BY_STATUS(status) ==
    CASE status = 0 -> "EndpointDiscovery"
      [] status = 1 -> "EndpointInfoNotification"
      [] status = 2 -> "DeviceIdentityNotification"
      [] status = 3 -> "EndpointNameNotification"
      [] status = 4 -> "ProductInstanceIdNotification"
      [] status = 5 -> "StreamConfigurationRequest"
      [] status = 6 -> "StreamConfigurationNotification"
      [] status = 16 -> "FunctionBlockDiscovery"
      [] status = 17 -> "FunctionBlockInfoNotification"
      [] status = 18 -> "FunctionBlockNameNotification"
      [] status = 32 -> "StartOfClip"
      [] status = 33 -> "EndOfClip"

\* [b for b in name_bytes if b != 0]
RECURSIVE NonZero(_)
NonZero(b) ==
    IF b = <<>> THEN <<>>
    ELSE (IF Head(b) = 0 THEN <<>> ELSE <<Head(b)>>) \o NonZero(Tail(b))

\* bytes.decode("utf-8", errors="ignore") for code points below 2048: a
\* byte that starts no character is left out.
RECURSIVE decode_utf8_ignore(_)
decode_utf8_ignore(b) ==
    IF b = <<>> THEN <<>>
    ELSE IF b[1] < 128 THEN <<b[1]>> \o decode_utf8_ignore(Tail(b))
    ELSE IF b[1] \in 194..223 /\ Len(b) >= 2 /\ b[2] \in 128..191
    THEN <<(b[1] - 192) * 64 + (b[2] - 128)>>
         \o decode_utf8_ignore(SubSeq(b, 3, Len(b)))
    ELSE decode_utf8_ignore(Tail(b))

\* The parse of each class of UMPStream, form being the field UMPStream.parse
\* read and n the number of words there are: reading a word beyond them
\* raises IndexError.  Tuples are sequences; a bool is a truth value.
UMPStream_parse_class(cls, form, words, n) ==
    LET w == words[1]
        x == words[2]
        y == words[3]
        z == words[4]
    IN CASE cls = "EndpointDiscovery" ->
              IF n < 2 THEN Raise("IndexError")
              ELSE UMPValue(cls, <<form, <<w[3], w[4]>>, x[4] % 32>>)
         [] cls = "EndpointInfoNotification" ->
              IF n < 2 THEN Raise("IndexError")
              ELSE UMPValue(cls, <<form, <<w[3], w[4]>>, Bit(x[1], 7), x[1] % 128,
                                   Bit(x[3], 1), Bit(x[3], 0), Bit(x[4], 1),
                                   Bit(x[4], 0)>>)
         [] cls = "DeviceIdentityNotification" ->
              IF n < 4 THEN Raise("IndexError")
              ELSE UMPValue(cls, <<form, <<x[2] % 128, x[3] % 128, x[4] % 128>>,
                                   (y[2] % 128) * 128 + (y[1] % 128),
                                   (y[4] % 128) * 128 + (y[3] % 128),
                                   Mask7(z)>>)
         [] cls = "EndpointNameNotification" ->
              LET chars == decode_utf8(<<w[3], w[4]>> \o x \o y \o z)
              IN IF n < 4 THEN Raise("IndexError")
                 ELSE IF chars = <<-1>> THEN Raise("UnicodeDecodeError")
                 ELSE UMPValue(cls, <<form, rstrip(chars)>>)
         [] cls = "ProductInstanceIdNotification" ->
              LET chars == decode_ascii(<<w[3], w[4]>> \o x \o y \o z)
              IN IF n < 4 THEN Raise("IndexError")
                 ELSE IF chars = <<-1>> THEN Raise("UnicodeDecodeError")
                 ELSE UMPValue(cls, <<form, rstrip(chars)>>)
         [] cls \in {"StreamConfigurationRequest", "StreamConfigurationNotification"} ->
              UMPValue(cls, <<form, w[3], Bit(w[4], 7)>>)
         [] cls = "FunctionBlockDiscovery" ->
              UMPValue(cls, <<form, w[3], w[4]>>)
         [] cls = "FunctionBlockInfoNotification" ->
              IF (w[4] \div 4) % 4 = 3 THEN Raise("ValueError")
              ELSE IF n < 2 THEN Raise("IndexError")
              ELSE UMPValue(cls, <<form, Bit(w[3], 7), w[3] % 128, Bit(w[4], 5),
                                   Bit(w[4], 4), (w[4] \div 4) % 4, Bit(w[4], 1),
                                   Bit(w[4], 0), x[1], x[2], x[3], x[4]>>)
         [] cls = "FunctionBlockNameNotification" ->
              IF n < 4 THEN Raise("IndexError")
              ELSE UMPValue(cls, <<form, w[3],
                       decode_utf8_ignore(NonZero(<<w[4]>> \o x \o y \o z))>>)
         [] cls \in {"StartOfClip", "EndOfClip"} -> UMPValue(cls, <<form>>)

\* UMPStream.parse: form is (words[0] >> 26) & 3, status (words[0] >> 16) & 0x3FF.
UMPStream_parse(words) ==
    LET w == words[1]
        form == (w[1] \div 4) % 4
        status == (w[1] % 4) * 256 + w[2]
    IN IF status \notin UMPStream_Status THEN Raise("ValueError")
       ELSE UMPStream_parse_class(UMP_STREAM_BY_STATUS(status), form,
                                  words \o <<NoWord, NoWord, NoWord>>, Len(words))

\* UMP.parse: mt is words[0] >> 28, UMP_BY_MT[mt] the class that parses.
UMP_parse(words) ==
    IF Len(words) = 0 THEN Raise("IndexError")
    ELSE LET mt == words[1][1] \div 16
         IN IF mt \notin MessageType THEN Raise("ValueError")
            ELSE CASE mt = 0 -> Utility_parse(words)
                   [] mt = 1 -> SystemRealTime_parse(words)
                   [] mt = 2 -> MIDI1ChannelVoice_parse(words)
                   [] mt = 3 -> Data64_parse(words)
                   [] mt = 4 -> MIDI2ChannelVoice_parse(words)
                   [] mt = 5 -> Data128_parse(words)
                   [] mt = 13 -> FlexData_parse(words)
                   [] mt = 15 -> UMPStream_parse(words)

\* UDPTransport.dispatch, lines 288-291: the payload cut into big-endian words.
PayloadWords(payload) ==
    [i \in 1..(Len(payload) \div 4) |-> SubSeq(payload, 4 * (i - 1) + 1, 4 * i)]

\* ------------------------------------------------------------------------
\* The environment: credentials and the datagrams that can arrive
\* ------------------------------------------------------------------------
AuthNone == [kind |-> "none", user |-> <<>>, pwd |-> <<>>]
AuthSecret == [kind |-> "str", user |-> <<>>, pwd |-> <<115, 51>>]
AuthUser == [kind |-> "tuple", user |-> <<233, 118>>, pwd |-> <<112>>]
AuthValues == {AuthNone, AuthSecret, AuthUser}

Challenge1 == <<1, 2, 3, 4>>
Challenge2 == <<5, 6, 7, 8>>
PingPayload == <<9, 9, 9, 9>>
NoOpBytes == <<0, 0, 0, 0>>         \* Utility NOOP
JRClockBytes == <<0, 16, 0, 5>>     \* Utility JR_CLOCK, timestamp 5
BadUMPBytes == <<96, 0, 0, 0>>      \* message type 6 does not exist

\* Commands a peer sends to a client that is connecting.
ConnCmds ==
    {CommandPacket("INVITATION_REPLY_ACCEPTED", 0, <<>>),
     CommandPacket("INVITATION_REPLY_PENDING", 0, <<>>),
     CommandPacket("INVITATION_REPLY_AUTH_REQUIRED", 0, Challenge1),
     CommandPacket("INVITATION_REPLY_AUTH_REQUIRED", 0, Challenge2),
     CommandPacket("INVITATION_REPLY_USER_AUTH_REQUIRED", 0, Challenge1),
     CommandPacket("PING", 0, PingPayload),
     CommandPacket("UMP_DATA", 7, NoOpBytes),
     CommandPacket("BYE", 256, <<>>)}

\* Commands a peer sends to a client inside recv().
RecvCmds ==
    {CommandPacket("UMP_DATA", 0, NoOpBytes),
     CommandPacket("UMP_DATA", 1, JRClockBytes),
     CommandPacket("UMP_DATA", 2, BadUMPBytes),
     CommandPacket("PING", 0, PingPayload),
     CommandPacket("INVITATION_REPLY_ACCEPTED", 0, <<>>),
     CommandPacket("BYE", 256, <<>>)}

RECURSIVE SeqsUpTo(_, _)
SeqsUpTo(S, n) ==
    IF n = 0 THEN {<<>>}
    ELSE LET shorter == SeqsUpTo(S, n - 1)
         IN shorter \cup {Append(q, x) : q \in shorter, x \in S}

\* A datagram as recvfrom() and MIDIUDPPacket.parse see it: the source
\* address, the exception parsing raises (bad magic and unknown command
\* code: ValueError; a header cut short: struct.error) and the commands.
Datagram(addr, error, commands) ==
    [addr |-> addr, error |-> error, commands |-> commands]

DatagramsOf(cmds) ==
    {Datagram("peer", "none", q) : q \in SeqsUpTo(cmds, MaxCmds)}
    \cup {Datagram("peer", e, <<>>) : e \in {"ValueError", "struct.error"}}
    \cup {Datagram("other", "none", <<c>>) : c \in cmds}
    \cup {Datagram("other", "ValueError", <<>>)}

ConnDatagrams == DatagramsOf(ConnCmds)
RecvDatagrams == DatagramsOf(RecvCmds)

Codes(commands) == [i \in 1..Len(commands) |-> commands[i].command]

\* ------------------------------------------------------------------------
\* The wire: what sendcmd() hands to sendto()
\* ------------------------------------------------------------------------
RECURSIVE CountTx(_, _)
CountTx(tc, out) ==
    IF out = <<>> THEN tc
    ELSE CountTx([tc EXCEPT ![Head(out).command] = @ + 1], Tail(out))

LastTx(lt, out) == IF out = <<>> THEN lt ELSE out[Len(out)]

RECURSIVE SumTx(_, _)
SumTx(tc, codes) ==
    IF codes = {} THEN 0
    ELSE LET c == CHOOSE x \in codes : TRUE
         IN tc[c] + SumTx(tc, codes \ {c})

TxTotal == SumTx(txcount, CommandCode)

\* ------------------------------------------------------------------------
\* transport.py: UDPTransport
\* ------------------------------------------------------------------------
\* The state a loop over the commands of one datagram works on: the fields
\* it may change, the packets it sent and the exception that ended it.
LoopState(est, q, out, exc) ==
    [established |-> est, queue |-> q, out |-> out, exc |-> exc]

\* The answer computed with the challenge and the secret in the wrong order.
SharedSecretSwapped(payload, secret) == sha256(encode(secret) \o payload)

\* Line 208: auth = sha256(cmd.payload + self.auth.encode())
SharedSecretAuth(payload, secret) == sha256(payload \o encode(secret))

\* UDPTransport.check_invitation
check_invitation(st, cmd) ==
    CASE cmd.command = "INVITATION_REPLY_ACCEPTED" ->
            [st EXCEPT !.established = TRUE]
      [] cmd.command = "INVITATION_REPLY_AUTH_REQUIRED" ->
            IF auth.kind # "str"
            THEN [st EXCEPT !.exc = "SharedSecretRequiredError"]
            ELSE [st EXCEPT !.out = Append(@,
                    CommandPacket("INVITATION_WITH_AUTH", 0,
                                  SharedSecretAuth(cmd.payload, auth.pwd)))]
      [] cmd.command = "INVITATION_REPLY_USER_AUTH_REQUIRED" ->
            IF auth.kind # "tuple"
            THEN [st EXCEPT !.exc = "UserPasswordRequiredError"]
            ELSE LET user == encode(auth.user)
                     pwd == encode(auth.pwd)
                     digest == sha256(cmd.payload \o user \o pwd)
                     padded == IF Len(user) % 4 # 0
                               THEN ljust(user, Len(user) + 4 - (Len(user) % 4))
                               ELSE user
                 IN [st EXCEPT !.out = Append(@,
                        CommandPacket("INVITATION_WITH_USER_AUTH", 0,
                                      digest \o padded))]
      [] OTHER -> st

\* A loop that checks the first command of a datagram only.
check_first(st, commands) ==
    IF commands = <<>> THEN st ELSE check_invitation(st, Head(commands))

\* _connect, line 251: for cmd in self.recvcmd(): self.check_invitation(cmd)
RECURSIVE check_all(_, _)
check_all(st, commands) ==
    IF commands = <<>> \/ st.exc # "none" THEN st
    ELSE check_all(check_invitation(st, Head(commands)), Tail(commands))

\* A test every source address passes.
any_address(addr) == TRUE

\* recvcmd, line 192: addr_info == (self.peer_ip, self.peer_port); a
\* datagram that fails the test is not parsed and recvfrom() is called again.
is_peer(addr) == addr = "peer"

\* connect() without the test of _transport_connected.
ConnectUnguarded ==
    /\ pc = "idle"
    /\ session_established' = FALSE
    /\ sock' = "open"
    /\ txcount' = [txcount EXCEPT !["INVITATION"] = @ + 1]
    /\ last_tx' = CommandPacket("INVITATION", ClientCapability_NONE, <<>>)
    /\ pc' = "connect"
    /\ hook' = "_connect"
    /\ last_op' = [op |-> "connect", src |-> "-", rx |-> <<>>]
    /\ raised' = "none"
    /\ UNCHANGED <<auth, _transport_connected, tx_seq, rx_queue, returned,
                   claimed, dispatched>>

\* Transport.connect and the part of UDPTransport._connect that runs before
\* the first recvfrom(): reset, socket, INVITATION.
Connect ==
    /\ pc = "idle"
    /\ IF _transport_connected
       THEN /\ last_op' = [op |-> "connect_again", src |-> "-", rx |-> <<>>]
            /\ UNCHANGED <<session_established, sock, pc, txcount, last_tx, hook>>
       ELSE /\ session_established' = FALSE
            /\ sock' = "open"
            /\ txcount' = [txcount EXCEPT !["INVITATION"] = @ + 1]
            /\ last_tx' = CommandPacket("INVITATION", ClientCapability_NONE, <<>>)
            /\ pc' = "connect"
            /\ hook' = "_connect"
            /\ last_op' = [op |-> "connect", src |-> "-", rx |-> <<>>]
    /\ raised' = "none"
    /\ UNCHANGED <<auth, _transport_connected, tx_seq, rx_queue, returned,
                   claimed, dispatched>>

\* One turn of the loop of _connect: recvcmd() reads datagram d, every
\* command of it goes through check_invitation, then the loop condition is
\* tested; connect() sets _transport_connected when _connect returns.
ConnectStep(d) ==
    /\ pc = "connect"
    /\ last_op' = [op |-> "connect_step", src |-> d.addr, rx |-> Codes(d.commands)]
    /\ IF ~is_peer(d.addr)
       THEN UNCHANGED <<_transport_connected, session_established, pc, raised,
                        txcount, last_tx, hook>>
       ELSE IF d.error # "none"
       THEN /\ pc' = "idle"
            /\ raised' = d.error
            /\ hook' = "_connect_raised"
            /\ UNCHANGED <<_transport_connected, session_established,
                           txcount, last_tx>>
       ELSE LET st == check_all(LoopState(session_established, rx_queue,
                                          <<>>, "none"), d.commands)
            IN /\ session_established' = st.established
               /\ txcount' = CountTx(txcount, st.out)
               /\ last_tx' = LastTx(last_tx, st.out)
               /\ raised' = st.exc
               /\ hook' = IF st.exc # "none" THEN "_connect_raised" ELSE hook
               /\ IF st.exc # "none"
                  THEN pc' = "idle" /\ UNCHANGED _transport_connected
                  ELSE IF st.established
                  THEN pc' = "idle" /\ _transport_connected' = TRUE
                  ELSE pc' = "connect" /\ UNCHANGED _transport_connected
    /\ UNCHANGED <<auth, sock, tx_seq, rx_queue, returned, claimed, dispatched>>

\* The ByeReason member _disconnect names: USER_TERMINATED when the session
\* is established, INVITATION_CANCELED otherwise (lines 259-261).
ByeReasonName(established) ==
    IF established THEN "USER_TERMINATED" ELSE "INVITATION_CANCELED"

\* The value of a member of ByeReason.
ByeReason(member) ==
    CASE member = "USER_TERMINATED" -> USER_TERMINATED
      [] member = "INVITATION_CANCELLED" -> INVITATION_CANCELLED

\* Transport.disconnect and UDPTransport._disconnect.  Naming a member the
\* enumeration does not have raises AttributeError before anything is sent.
Disconnect ==
    /\ pc = "idle"
    /\ IF _transport_connected
       THEN /\ hook' = "_disconnect"
            /\ IF ByeReasonName(session_established) \notin ByeReasonNames
               THEN /\ raised' = "AttributeError"
                    /\ UNCHANGED <<_transport_connected, session_established,
                                   sock, txcount, last_tx>>
               ELSE /\ txcount' = [txcount EXCEPT !["BYE"] = @ + 1]
                    /\ last_tx' = CommandPacket("BYE",
                          ByeReason(ByeReasonName(session_established)) * 256, <<>>)
                    /\ session_established' = FALSE
                    /\ sock' = "closed"
                    /\ _transport_connected' = FALSE
                    /\ raised' = "none"
       ELSE /\ raised' = "none"
            /\ UNCHANGED <<_transport_connected, session_established, sock,
                           txcount, last_tx, hook>>
    /\ last_op' = [op |-> "disconnect", src |-> "-", rx |-> <<>>]
    /\ UNCHANGED <<auth, tx_seq, rx_queue, pc, returned, claimed, dispatched>>

\* ------------------------------------------------------------------------
\* send() and recv()
\* ------------------------------------------------------------------------
\* UMP.encode for the Utility messages: mt << 28 | status << 20 | timestamp,
\* one word; struct.pack(">I", ...) lays it out big-endian.
UMP_encode(m) ==
    LET status == CASE m.cls = "NoOp" -> 0
                    [] m.cls = "JRClock" -> 1
                    [] m.cls = "JRTimestamp" -> 2
        ts == IF m.fields = <<>> THEN 0 ELSE m.fields[1] % 1048576
    IN <<0 * 16, status * 16 + (ts \div 65536), (ts \div 256) % 256, ts % 256>>

\* ------------------------------------------------------------------------
\* ump.py: encoding
\* ------------------------------------------------------------------------
\* What encode() leaves: the exception raised ("none" if none) and the words.
Encoded(exc, words) == [exc |-> exc, words |-> words]
NotEncoded == Encoded("unencoded", <<>>)

\* int(b) of a bool
bool_int(b) == IF b THEN 1 ELSE 0

\* UMP_NUM_WORDS
UMP_NUM_WORDS(mt) ==
    CASE mt \in {0, 1, 2} -> 1
      [] mt \in {3, 4} -> 2
      [] mt \in {5, 13, 15} -> 4

UtilityClasses == {"NoOp", "JRClock", "JRTimestamp"}
SystemRealTimeClasses == {"MIDITimeCode", "SongPositionPointer"}
MIDI1Classes ==
    {"MIDI1NoteOff", "MIDI1NoteOn", "MIDI1ControlChange", "MIDI1ProgramChange",
     "MIDI1PitchBend"}
MIDI2Classes ==
    {"MIDI2NoteOff", "MIDI2NoteOn", "MIDI2ControlChange", "MIDI2ProgramChange",
     "MIDI2PitchBend"}
FlexDataClasses == {"SetupAndPerformanceEvent", "MetadataText", "PerformanceTextEvent"}
UMPStreamClasses ==
    {"EndpointDiscovery", "EndpointInfoNotification", "DeviceIdentityNotification",
     "EndpointNameNotification", "ProductInstanceIdNotification",
     "StreamConfigurationRequest", "StreamConfigurationNotification",
     "FunctionBlockDiscovery", "FunctionBlockInfoNotification",
     "FunctionBlockNameNotification", "StartOfClip", "EndOfClip"}

\* self.mt as the __post_init__ of each class leaves it.  The classes of
\* FlexData set status_bank and do not call super().__post_init__(): the
\* attribute mt is never set (-1).
mt_of(cls) ==
    CASE cls \in UtilityClasses -> 0
      [] cls \in SystemRealTimeClasses -> 1
      [] cls \in MIDI1Classes -> 2
      [] cls = "Data64" -> 3
      [] cls \in MIDI2Classes -> 4
      [] cls = "Data128" -> 5
      [] cls \in FlexDataClasses -> -1
      [] cls \in UMPStreamClasses -> 15

\* self.status as __post_init__ leaves it, for the classes that have one.
status_of(cls) ==
    CASE cls = "MIDITimeCode" -> 1
      [] cls = "SongPositionPointer" -> 2
      [] cls \in {"MIDI1NoteOff", "MIDI2NoteOff"} -> 8
      [] cls \in {"MIDI1NoteOn", "MIDI2NoteOn"} -> 9
      [] cls \in {"MIDI1ControlChange", "MIDI2ControlChange"} -> 11
      [] cls \in {"MIDI1ProgramChange", "MIDI2ProgramChange"} -> 12
      [] cls \in {"MIDI1PitchBend", "MIDI2PitchBend"} -> 14
      [] cls \in UMPStreamClasses ->
            CHOOSE s \in UMPStream_Status : UMP_STREAM_BY_STATUS(s) = cls

\* MIDI1PitchBend.encode_into: bits 14..8 and 6..0 of word 0,
\* (value & 0x7F) and ((value >> 7) & 0x7F)
MIDI1PitchBend_encode_into(value) == <<value % 128, (value \div 128) % 128>>

\* The 14 bytes of a name field cut into the low half of word 0 and words 1..3.
NameWords(b1, status, chars) ==
    <<<<b1, status, chars[1], chars[2]>>, SubSeq(chars, 3, 6),
      SubSeq(chars, 7, 10), SubSeq(chars, 11, 14)>>

\* encode_into of each class, for fields within the width of their place in
\* the word, where the | of the code joins bits that do not overlap.  f are
\* the fields in the order of the dataclass, mt and status left out.
encode_into(cls, f) ==
    LET b1 == mt_of(cls) * 16
        st == status_of(cls)
    IN CASE cls = "MIDITimeCode" ->
              Encoded("none", <<<<b1, st, f[1] * 16 + f[2], 0>>>>)
         [] cls = "SongPositionPointer" ->
              Encoded("none", <<<<b1, st, f[1] % 128, (f[1] \div 128) % 128>>>>)
         [] cls \in {"MIDI1NoteOff", "MIDI1NoteOn", "MIDI1ControlChange"} ->
              Encoded("none", <<<<b1 + f[1], st * 16 + f[2], f[3], f[4]>>>>)
         [] cls = "MIDI1ProgramChange" ->
              Encoded("none", <<<<b1 + f[1], st * 16 + f[2], 0, f[3]>>>>)
         [] cls = "MIDI1PitchBend" ->
              Encoded("none", <<<<b1 + f[1], st * 16 + f[2]>>
                                \o MIDI1PitchBend_encode_into(f[3])>>)
         [] cls \in {"MIDI2NoteOff", "MIDI2NoteOn"} ->
              Encoded("none", <<<<b1 + f[1], st * 16 + f[2], f[3], f[4]>>,
                                <<f[5] \div 256, f[5] % 256,
                                  f[6] \div 256, f[6] % 256>>>>)
         [] cls = "MIDI2ControlChange" ->
              Encoded("none", <<<<b1 + f[1], st * 16 + f[2], f[3], 0>>, f[4]>>)
         [] cls = "MIDI2ProgramChange" ->
              Encoded("none", <<<<b1 + f[1], st * 16 + f[2], 0, bool_int(f[4])>>,
                                <<f[3], 0, f[5] \div 128, f[5] % 128>>>>)
         [] cls = "MIDI2PitchBend" ->
              Encoded("none", <<<<b1 + f[1], st * 16 + f[2], 0, 0>>, f[3]>>)
         [] cls = "Data64" ->
              LET data == ljust(f[3], 6)
              IN IF Len(f[3]) > 6 THEN Encoded("ValueError", <<>>)
                 ELSE Encoded("none",
                        <<<<b1 + f[1], f[2] * 16 + Len(f[3]),
                            data[1] % 128, data[2] % 128>>,
                          SubSeq(data, 3, 6)>>)
         [] cls = "Data128" ->
              LET data == ljust(f[4], 13)
              IN IF Len(f[4]) > 13 THEN Encoded("ValueError", <<>>)
                 ELSE Encoded("none",
                        <<<<b1 + f[1], f[2] * 16 + Len(f[4]), f[3], data[1]>>,
                          SubSeq(data, 2, 5), SubSeq(data, 6, 9),
                          SubSeq(data, 10, 13)>>)
         [] cls = "EndpointDiscovery" ->
              Encoded("none", <<<<b1 + 4 * f[1], st, f[2][1], f[2][2]>>,
                                <<0, 0, 0, f[3]>>, NoWord, NoWord>>)
         [] cls = "EndpointInfoNotification" ->
              Encoded("none", <<<<b1 + 4 * f[1], st, f[2][1], f[2][2]>>,
                                <<bool_int(f[3]) * 128 + f[4], 0,
                                  bool_int(f[5]) * 2 + bool_int(f[6]),
                                  bool_int(f[7]) * 2 + bool_int(f[8])>>,
                                NoWord, NoWord>>)
         [] cls = "DeviceIdentityNotification" ->
              Encoded("none", <<<<b1 + 4 * f[1], st, 0, 0>>,
                                <<0>> \o f[2],
                                <<f[3] % 128, (f[3] \div 128) % 128,
                                  f[4] % 128, (f[4] \div 128) % 128>>,
                                f[5]>>)
         [] cls = "EndpointNameNotification" ->
              LET chars == ljust(encode(f[2]), 14)
              IN IF Len(chars) > 14 THEN Encoded("ValueError", <<>>)
                 ELSE Encoded("none", NameWords(b1 + 4 * f[1], st, chars))
         [] cls = "ProductInstanceIdNotification" ->
              LET chars == ljust(f[2], 14)
              IN IF \E i \in 1..Len(f[2]) : f[2][i] >= 128
                 THEN Encoded("UnicodeEncodeError", <<>>)
                 ELSE IF Len(chars) > 14 THEN Encoded("ValueError", <<>>)
                 ELSE Encoded("none", NameWords(b1 + 4 * f[1], st, chars))
         [] cls \in {"StreamConfigurationRequest", "StreamConfigurationNotification"} ->
              Encoded("none", <<<<b1 + 4 * f[1], st, f[2], bool_int(f[3]) * 128>>,
                                NoWord, NoWord, NoWord>>)
         [] cls = "FunctionBlockDiscovery" ->
              Encoded("none", <<<<b1 + 4 * f[1], st, f[2], f[3]>>,
                                NoWord, NoWord, NoWord>>)
         [] cls = "FunctionBlockInfoNotification" ->
              Encoded("none",
                <<<<b1 + 4 * f[1], st, bool_int(f[2]) * 128 + f[3],
                    bool_int(f[4]) * 32 + bool_int(f[5]) * 16 + f[6] * 4
                        + bool_int(f[7]) * 2 + bool_int(f[8])>>,
                  <<f[9], f[10], f[11], f[12]>>, NoWord, NoWord>>)
         [] cls = "FunctionBlockNameNotification" ->
              LET name_bytes == ljust(Take(encode(f[3]), 13), 13)
              IN Encoded("none",
                   <<<<b1 + 4 * f[1], st, f[2], name_bytes[1]>>,
                     SubSeq(name_bytes, 2, 5), SubSeq(name_bytes, 6, 9),
                     SubSeq(name_bytes, 10, 13)>>)
         [] cls \in {"StartOfClip", "EndOfClip"} ->
              Encoded("none", <<<<b1 + 4 * f[1], st, 0, 0>>, NoWord, NoWord, NoWord>>)

\* UMP.encode of a message of any class: UMP_NUM_WORDS[self.mt] zero words,
\* then encode_into.  Reading self.mt raises AttributeError where it was
\* never set.
encode_words(m) ==
    IF mt_of(m.cls) = -1 THEN Encoded("AttributeError", <<>>)
    ELSE IF m.cls \in UtilityClasses
    THEN Encoded("none", PayloadWords(UMP_encode(m)))
    ELSE encode_into(m.cls, m.fields)

\* No message, and the outcome of a parse that was not made.
NoMessage == UMPValue("none", <<>>)
NotParsed == UMPValue("unparsed", <<>>)

\* The codec was not used.
CodecIdle ==
    /\ u_msg = NoMessage
    /\ u_enc = NotEncoded
    /\ u_in = <<>>
    /\ u_dec = NotParsed

\* ------------------------------------------------------------------------
\* transport.py: send() and recv(), continued
\* ------------------------------------------------------------------------
\* The messages the caller sends.
SendMessages == {UMPValue("NoOp", <<>>), UMPValue("JRClock", <<5>>)}

\* tx_seq after a send that succeeded (line 279).
NextSeq(seq) == seq + 1

\* UDPTransport.send: the outcome of sending m with the counter at seq.
\* self.sock is looked up first, bytes(pkt) is evaluated next (struct.pack
\* rejects an auxiliary value above 65535), then sendto() is called.
send(m, seq) ==
    LET cmd == CommandPacket("UMP_DATA", seq, UMP_encode(m))
    IN IF sock = "none" THEN [exc |-> "AttributeError", cmd |-> cmd, seq |-> seq]
       ELSE IF ~Encodable(cmd) THEN [exc |-> "struct.error", cmd |-> cmd, seq |-> seq]
       ELSE IF sock = "closed" THEN [exc |-> "OSError", cmd |-> cmd, seq |-> seq]
       ELSE [exc |-> "none", cmd |-> cmd, seq |-> NextSeq(seq)]

Send(m) ==
    /\ pc = "idle"
    /\ LET r == send(m, tx_seq)
       IN /\ raised' = r.exc
          /\ tx_seq' = r.seq
          /\ IF r.exc = "none"
             THEN /\ txcount' = [txcount EXCEPT !["UMP_DATA"] = @ + 1]
                  /\ last_tx' = r.cmd
             ELSE UNCHANGED <<txcount, last_tx>>
    /\ last_op' = [op |-> "send", src |-> "-", rx |-> <<>>]
    /\ UNCHANGED <<auth, _transport_connected, session_established, sock,
                   rx_queue, pc, hook, returned, claimed, dispatched>>

\* A dispatch whose PING_REPLY does not carry the payload of the PING.
dispatch_empty_reply(st, cmd) ==
    CASE cmd.command = "PING" ->
            [st EXCEPT !.out = Append(@, CommandPacket("PING_REPLY", 0, <<>>))]
      [] cmd.command = "UMP_DATA" ->
            LET m == UMP_parse(PayloadWords(cmd.payload))
            IN IF IsError(m) THEN [st EXCEPT !.exc = m.cls]
               ELSE [st EXCEPT !.queue = Append(@, m)]
      [] OTHER -> st

\* UDPTransport.dispatch
dispatch(st, cmd) ==
    CASE cmd.command = "PING" ->
            [st EXCEPT !.out = Append(@, [cmd EXCEPT !.command = "PING_REPLY"])]
      [] cmd.command = "UMP_DATA" ->
            LET m == UMP_parse(PayloadWords(cmd.payload))
            IN IF IsError(m) THEN [st EXCEPT !.exc = m.cls]
               ELSE [st EXCEPT !.queue = Append(@, m)]
      [] OTHER -> st

\* recv, lines 296-297: for cmd in self.recvcmd(): self.dispatch(cmd)
RECURSIVE dispatch_all(_, _)
dispatch_all(st, commands) ==
    IF commands = <<>> \/ st.exc # "none" THEN st
    ELSE dispatch_all(dispatch(st, Head(commands)), Tail(commands))

\* rx_queue.pop(): the last element instead of the first.
pop_last(q) == [value |-> q[Len(q)], rest |-> SubSeq(q, 1, Len(q) - 1)]

\* rx_queue.pop(0): the element returned and the queue left.
pop0(q) == [value |-> Head(q), rest |-> Tail(q)]

\* The UMP_DATA commands among cmds whose payload decodes, decoded, in order.
RECURSIVE Decodable(_)
Decodable(cmds) ==
    IF cmds = <<>> THEN <<>>
    ELSE LET c == Head(cmds)
             m == UMP_parse(PayloadWords(c.payload))
         IN (IF c.command = "UMP_DATA" /\ ~IsError(m) THEN <<m>> ELSE <<>>)
            \o Decodable(Tail(cmds))

Undecodable(c) ==
    c.command = "UMP_DATA" /\ IsError(UMP_parse(PayloadWords(c.payload)))

\* The commands of a datagram that precede its first undecodable UMP_DATA.
RECURSIVE BeforeFailure(_)
BeforeFailure(cmds) ==
    IF cmds = <<>> \/ Undecodable(Head(cmds)) THEN <<>>
    ELSE <<Head(cmds)>> \o BeforeFailure(Tail(cmds))

\* recv() up to its first recvfrom(): the test of the queue.
Recv ==
    /\ pc = "idle"
    /\ last_op' = [op |-> "recv", src |-> "-", rx |-> <<>>]
    /\ IF rx_queue # <<>>
       THEN /\ returned' = Append(returned, pop0(rx_queue).value)
            /\ rx_queue' = pop0(rx_queue).rest
            /\ raised' = "none"
            /\ UNCHANGED pc
       ELSE IF sock # "open"
       THEN /\ raised' = IF sock = "none" THEN "AttributeError" ELSE "OSError"
            /\ UNCHANGED <<pc, rx_queue, returned>>
       ELSE /\ pc' = "recv"
            /\ raised' = "none"
            /\ UNCHANGED <<rx_queue, returned>>
    /\ UNCHANGED <<auth, _transport_connected, session_established, sock,
                   tx_seq, txcount, last_tx, hook, claimed, dispatched>>

\* One turn of the loop of recv(): recvcmd() reads datagram d, every command
\* of it is dispatched, then the queue is tested and its head returned.
RecvStep(d) ==
    /\ pc = "recv"
    /\ last_op' = [op |-> "recv_step", src |-> d.addr, rx |-> Codes(d.commands)]
    /\ IF ~is_peer(d.addr)
       THEN UNCHANGED <<pc, raised, rx_queue, returned, txcount, last_tx,
                        claimed, dispatched>>
       ELSE IF d.error # "none"
       THEN /\ pc' = "idle"
            /\ raised' = d.error
            /\ UNCHANGED <<rx_queue, returned, txcount, last_tx, claimed,
                           dispatched>>
       ELSE LET st == dispatch_all(LoopState(session_established, rx_queue,
                                             <<>>, "none"), d.commands)
            IN /\ txcount' = CountTx(txcount, st.out)
               /\ last_tx' = LastTx(last_tx, st.out)
               /\ raised' = st.exc
               /\ claimed' = claimed \o Decodable(d.commands)
               /\ dispatched' = dispatched \o Decodable(BeforeFailure(d.commands))
               /\ IF st.exc # "none"
                  THEN pc' = "idle" /\ rx_queue' = st.queue /\ UNCHANGED returned
                  ELSE IF st.queue # <<>>
                  THEN /\ pc' = "idle"
                       /\ returned' = Append(returned, pop0(st.queue).value)
                       /\ rx_queue' = pop0(st.queue).rest
                  ELSE pc' = "recv" /\ UNCHANGED <<rx_queue, returned>>
    /\ UNCHANGED <<auth, _transport_connected, session_established, sock,
                   tx_seq, hook>>

\* ------------------------------------------------------------------------
\* endpoint.py: UMPEndpoint
\* ------------------------------------------------------------------------
\* str | None.  A str is the sequence of the payloads it was built from.
NoneStr == [is_none |-> TRUE, s |-> <<>>]
Str(s) == [is_none |-> FALSE, s |-> s]

\* A test that takes Complete alone for the start of a name.
is_complete(form) == form = "COMPLETE"

\* A test that takes End alone for the end of a name.
is_end(form) == form = "END"

\* StreamFormat.is_starting, StreamFormat.is_ending
is_starting(form) == form \in {"COMPLETE", "START"}
is_ending(form) == form \in {"COMPLETE", "END"}

StreamFormat == {"COMPLETE", "START", "CONTINUE", "END"}

\* A slot of function_blocks: None, or a FunctionBlock.
NoneSlot ==
    [some |-> FALSE, _id |-> 0, active |-> FALSE, groups |-> {},
     is_output |-> FALSE, is_input |-> FALSE, ui_hint_sender |-> FALSE,
     ui_hint_receiver |-> FALSE, midi1 |-> FALSE, restrict_31_25kbps |-> FALSE,
     name |-> NoneStr, _name_complete |-> FALSE]

\* FunctionBlock.from_info
from_info(pkt) ==
    [some |-> TRUE, _id |-> pkt.function_block_id, active |-> pkt.active,
     groups |-> pkt.first_group..(pkt.first_group + pkt.number_of_groups - 1),
     is_output |-> pkt.is_output, is_input |-> pkt.is_input,
     ui_hint_sender |-> pkt.ui_hint_sender,
     ui_hint_receiver |-> pkt.ui_hint_receiver,
     midi1 |-> pkt.midi1 \in {1, 2},
     restrict_31_25kbps |-> pkt.midi1 = 2,
     name |-> NoneStr, _name_complete |-> FALSE]

\* The received messages dispatch() tells apart.
EndpointInfoNotification(n) ==
    [kind |-> "EndpointInfoNotification", n_function_blocks |-> n,
     form |-> "COMPLETE", name |-> <<>>, function_block_id |-> 0]
EndpointNameNotification(form, payload) ==
    [kind |-> "EndpointNameNotification", n_function_blocks |-> 0,
     form |-> form, name |-> payload, function_block_id |-> 0]
FunctionBlockInfoNotification(id) ==
    [kind |-> "FunctionBlockInfoNotification", n_function_blocks |-> 0,
     form |-> "COMPLETE", name |-> <<>>, function_block_id |-> id]
FunctionBlockNameNotification(id, form, payload) ==
    [kind |-> "FunctionBlockNameNotification", n_function_blocks |-> 0,
     form |-> form, name |-> payload, function_block_id |-> id]
DeviceIdentityNotification ==
    [kind |-> "DeviceIdentityNotification", n_function_blocks |-> 0,
     form |-> "COMPLETE", name |-> <<>>, function_block_id |-> 0]

\* The fields of a FunctionBlockInfoNotification for block id, as the
\* modelled device reports them.
InfoFields(id) ==
    [function_block_id |-> id, active |-> TRUE, first_group |-> id,
     number_of_groups |-> 1, is_output |-> TRUE, is_input |-> TRUE,
     ui_hint_sender |-> TRUE, ui_hint_receiver |-> FALSE, midi1 |-> 0]

EndpointState(fbs, nm, complete, exc) ==
    [function_blocks |-> fbs, name |-> nm, _name_complete |-> complete,
     exc |-> exc]

\* The bound test with > for >=.
BeyondBlocks(id, fbs) == id > Len(fbs)

\* Lines 99 and 108: pkt.function_block_id >= len(self.function_blocks)
UnknownBlock(id, fbs) == id >= Len(fbs)

\* UMPEndpoint.dispatch.  Block ids count from 0, sequences from 1;
\* indexing a list beyond its end raises IndexError.
ep_dispatch(ep, pkt) ==
    LET fbs == ep.function_blocks
        id == pkt.function_block_id
    IN CASE pkt.kind = "EndpointInfoNotification" ->
              IF fbs # <<>> THEN ep
              ELSE [ep EXCEPT !.function_blocks =
                        [i \in 1..pkt.n_function_blocks |-> NoneSlot]]
         [] pkt.kind = "EndpointNameNotification" ->
              LET nm == IF is_starting(pkt.form) THEN Str(<<>>) ELSE ep.name
                  complete == IF is_starting(pkt.form) THEN FALSE
                              ELSE ep._name_complete
              IN IF nm.is_none
                 THEN [ep EXCEPT !.name = nm, !._name_complete = complete]
                 ELSE [ep EXCEPT !.name = Str(nm.s \o pkt.name),
                                 !._name_complete =
                                     IF is_ending(pkt.form) THEN TRUE ELSE complete]
         [] pkt.kind = "FunctionBlockInfoNotification" ->
              IF UnknownBlock(id, fbs) THEN ep
              ELSE IF id + 1 > Len(fbs) THEN [ep EXCEPT !.exc = "IndexError"]
              ELSE [ep EXCEPT !.function_blocks[id + 1] = from_info(InfoFields(id))]
         [] pkt.kind = "FunctionBlockNameNotification" ->
              IF UnknownBlock(id, fbs) THEN ep
              ELSE IF id + 1 > Len(fbs) THEN [ep EXCEPT !.exc = "IndexError"]
              ELSE LET block == fbs[id + 1]
                       nm == IF is_starting(pkt.form) THEN Str(<<>>) ELSE block.name
                       complete == IF is_starting(pkt.form) THEN FALSE
                                   ELSE block._name_complete
                   IN IF ~block.some THEN ep
                      ELSE IF nm.is_none
                      THEN [ep EXCEPT !.function_blocks[id + 1].name = nm,
                                      !.function_blocks[id + 1]._name_complete = complete]
                      ELSE [ep EXCEPT
                              !.function_blocks[id + 1].name = Str(nm.s \o pkt.name),
                              !.function_blocks[id + 1]._name_complete =
                                  IF is_ending(pkt.form) THEN TRUE ELSE complete]
         [] OTHER -> ep

\* UMPEndpoint.has_all_names
has_all_names(ep) ==
    /\ ep._name_complete
    /\ \A i \in 1..Len(ep.function_blocks) :
          ep.function_blocks[i].some /\ ep.function_blocks[i]._name_complete

\* all(self.function_blocks)
all_blocks(fbs) == \A i \in 1..Len(fbs) : fbs[i].some

\* The requests discover() sends.
EndpointDiscovery == [msg |-> "EndpointDiscovery", filter |-> "ALL", block_num |-> 0]
FunctionBlockDiscovery(i) ==
    [msg |-> "FunctionBlockDiscovery", filter |-> "ALL", block_num |-> i]

\* Lines 145-152: one FunctionBlockDiscovery per slot, block_num = 0..n-1.
BlockDiscoveries(n) == [i \in 1..n |-> FunctionBlockDiscovery(i - 1)]

\* Where discover() stands once the loops from `phase` on have tested their
\* conditions on ep: the loop it blocks in, or "idle" when it returns.
RECURSIVE discover_from(_, _, _)
discover_from(phase, ep, wait) ==
    CASE phase = "wait_info" ->
            IF ep.function_blocks = <<>> THEN "wait_info"
            ELSE discover_from("wait_blocks", ep, wait)
      [] phase = "wait_blocks" ->
            IF ~all_blocks(ep.function_blocks) THEN "wait_blocks"
            ELSE IF wait THEN discover_from("wait_names", ep, wait) ELSE "idle"
      [] phase = "wait_names" ->
            IF ~has_all_names(ep) THEN "wait_names" ELSE "idle"

\* What the chunk reassembly rule makes of the notifications of one name:
\* the string accumulated, and whether a Complete or End was applied since
\* the last reset.
NameHistory(exp, done) == [exp |-> exp, done |-> done]
NoHistory == NameHistory(NoneStr, FALSE)

Reassemble(h, form, payload) ==
    IF form \in {"COMPLETE", "START"}
    THEN NameHistory(Str(payload), form = "COMPLETE")
    ELSE IF h.exp.is_none THEN h
    ELSE NameHistory(Str(h.exp.s \o payload), h.done \/ form = "END")

BlockIds == 0..(MaxBlocks - 1)

\* e_hist after pkt was dispatched with the slots fbs in place: info keeps
\* the count the first EndpointInfoNotification since the reset declared; ep follows
\* the endpoint name; lit[id] follows every name notification of a block id
\* in range; fb[id] follows those that found a descriptor in the slot and
\* starts afresh with each descriptor.
Observe(h, pkt, fbs) ==
    LET id == pkt.function_block_id
    IN CASE pkt.kind = "EndpointNameNotification" ->
              [h EXCEPT !.ep = Reassemble(@, pkt.form, pkt.name)]
         [] pkt.kind = "EndpointInfoNotification" /\ ~h.info.seen ->
              [h EXCEPT !.info = [seen |-> TRUE, n |-> pkt.n_function_blocks]]
         [] pkt.kind = "FunctionBlockInfoNotification" /\ id < Len(fbs) ->
              [h EXCEPT !.fb[id] = NoHistory]
         [] pkt.kind = "FunctionBlockNameNotification" /\ id < Len(fbs) ->
              [h EXCEPT !.lit[id] = Reassemble(@, pkt.form, pkt.name),
                        !.fb[id] = IF fbs[id + 1].some
                                   THEN Reassemble(@, pkt.form, pkt.name)
                                   ELSE @]
         [] OTHER -> h

FreshHistory ==
    [ep |-> NoHistory, lit |-> [i \in BlockIds |-> NoHistory],
     fb |-> [i \in BlockIds |-> NoHistory],
     info |-> [seen |-> FALSE, n |-> 0]]

Payloads == {<<"Euro">>, <<"rack">>}

\* The messages transport.recv() can hand to the endpoint.
EndpointPackets ==
    {EndpointInfoNotification(n) : n \in 0..MaxBlocks}
    \cup {EndpointNameNotification(f, p) : f \in StreamFormat, p \in Payloads}
    \cup {FunctionBlockInfoNotification(id) : id \in 0..MaxBlocks}
    \cup {FunctionBlockNameNotification(id, f, p) :
            id \in 0..MaxBlocks, f \in StreamFormat, p \in Payloads}
    \cup {DeviceIdentityNotification}

Endpoint == EndpointState(function_blocks, name, _name_complete, "none")

OpOf(op, pkt) == [op |-> op, kind |-> pkt.kind, id |-> pkt.function_block_id]

\* dispatch(pkt), called by the application.
Dispatch(pkt) ==
    /\ e_pc = "idle"
    /\ LET ep == ep_dispatch(Endpoint, pkt)
       IN /\ function_blocks' = ep.function_blocks
          /\ name' = ep.name
          /\ _name_complete' = ep._name_complete
          /\ e_raised' = ep.exc
    /\ e_hist' = Observe(e_hist, pkt, function_blocks)
    /\ e_op' = OpOf("dispatch", pkt)
    /\ UNCHANGED <<e_pc, e_wait, e_sent>>

\* discover(wait_for_all_names) up to its first recv(): the reset (lines
\* 131-132), the EndpointDiscovery, the test of the first loop.
Discover(wait) ==
    /\ e_pc = "idle"
    /\ function_blocks' = <<>>
    /\ name' = NoneStr
    /\ e_sent' = <<EndpointDiscovery>>
    /\ e_wait' = wait
    /\ e_pc' = "wait_info"
    /\ e_raised' = "none"
    /\ e_hist' = FreshHistory
    /\ e_op' = [op |-> "discover", kind |-> "-", id |-> 0]
    /\ UNCHANGED _name_complete

\* One turn of the loop discover() is in: recv() returns pkt, dispatch(pkt),
\* then the conditions of this loop and of the following ones are tested;
\* leaving the first loop sends the FunctionBlockDiscovery requests.
DiscoverStep(pkt) ==
    /\ e_pc # "idle"
    /\ LET ep == ep_dispatch(Endpoint, pkt)
       IN /\ function_blocks' = ep.function_blocks
          /\ name' = ep.name
          /\ _name_complete' = ep._name_complete
          /\ e_raised' = ep.exc
          /\ e_pc' = IF ep.exc # "none" THEN "idle"
                     ELSE discover_from(e_pc, ep, e_wait)
          /\ e_sent' = IF e_pc = "wait_info" /\ ep.function_blocks # <<>>
                          /\ ep.exc = "none"
                       THEN e_sent \o BlockDiscoveries(Len(ep.function_blocks))
                       ELSE e_sent
    /\ e_hist' = Observe(e_hist, pkt, function_blocks)
    /\ e_op' = OpOf("discover_step", pkt)
    /\ UNCHANGED e_wait

\* ------------------------------------------------------------------------
\* The device: the answers transport.recv() hands to discover()
\* ------------------------------------------------------------------------
\* The form of chunk i of a name sent in n chunks.
NameForm(i, n) ==
    IF n = 1 THEN "COMPLETE"
    ELSE IF i = 1 THEN "START"
    ELSE IF i = n THEN "END" ELSE "CONTINUE"

\* A name of k payloads, which is sent in k chunks.
DeviceName(k) == [i \in 1..k |-> IF i % 2 = 1 THEN "Euro" ELSE "rack"]
DeviceNames == {DeviceName(k) : k \in 1..MaxName}

\* A device: the number of function blocks it declares, its name, the name
\* of each of its blocks.
Devices ==
    [n : 0..MaxBlocks, name : DeviceNames, fb_name : [BlockIds -> DeviceNames]]

EndpointNameChunks(nm) ==
    [i \in 1..Len(nm) |-> EndpointNameNotification(NameForm(i, Len(nm)), <<nm[i]>>)]
FunctionBlockNameChunks(id, nm) ==
    [i \in 1..Len(nm) |->
        FunctionBlockNameNotification(id, NameForm(i, Len(nm)), <<nm[i]>>)]

\* What device d answers to request r, both of filter ALL: its
\* EndpointInfoNotification and its name to an EndpointDiscovery, the
\* FunctionBlockInfoNotification and the name of block i to a
\* FunctionBlockDiscovery of block_num i.  The notifications of one stream
\* arrive in their order, the streams in any order.
Answers(d, r) ==
    IF r.msg = "EndpointDiscovery"
    THEN {<<EndpointInfoNotification(d.n)>>, EndpointNameChunks(d.name)}
    ELSE IF r.block_num < d.n
    THEN {<<FunctionBlockInfoNotification(r.block_num)>>,
          FunctionBlockNameChunks(r.block_num, d.fb_name[r.block_num])}
    ELSE {}

\* No request was answered and nothing is on its way.
DeviceIdle ==
    /\ dev = [n |-> 0, name |-> DeviceName(1), fb_name |-> [i \in BlockIds |-> DeviceName(1)]]
    /\ d_seen = 0
    /\ d_flight = {}

\* ------------------------------------------------------------------------
\* host.py: MIDIHost
\* ------------------------------------------------------------------------
\* SessionState (core.py:30-41)
SessionState ==
    {"IDLE", "PENDING_INVITATION", "AUTHENTICATION_REQUIRED",
     "ESTABLISHED_SESSION", "PENDING_SESSION_RESET", "PENDING_BYTE"}

\* The remote identity of a session: None, or (name, product instance id).
NoRemote == [is_none |-> TRUE, name |-> <<>>, piid |-> <<>>]

\* The two parts of the identity taken one for the other.
RemoteSwapped(nm, piid) == [is_none |-> FALSE, name |-> piid, piid |-> nm]

Remote(nm, piid) == [is_none |-> FALSE, name |-> nm, piid |-> piid]

\* MIDISession() (core.py:130-134), and the absence of an entry in sessions.
MIDISession == [exists |-> TRUE, state |-> "IDLE", remote |-> NoRemote]
NoSession == [exists |-> FALSE, state |-> "IDLE", remote |-> NoRemote]

\* The identity the host was constructed with.
HostName == <<104>>
HostProductInstanceId == <<>>

\* int(ceil(len / 4))
ceil4(n) == (n + 3) \div 4

\* UMPNetEndpoint.get_identity with capabilities NONE
get_identity(as_command) ==
    LET nm == encode(HostName)
        piid == HostProductInstanceId
    IN CommandPacket(as_command,
                     ceil4(Len(nm)) * 256 + ClientCapability_NONE,
                     ljust(nm, 4 * ceil4(Len(nm)))
                         \o ljust(piid, 4 * ceil4(Len(piid))))

\* What one dispatch_packet() call leaves: the session map, the packets it
\* sent (with their destination), the payloads it logged as UMP DATA, and
\* the exception it raised.
Dispatched(sess, sent, delivered, exc) ==
    [sessions |-> sess, sent |-> sent, delivered |-> delivered, exc |-> exc]

\* MIDIHost.dispatch_packet
dispatch_packet(sess0, addr_info, pkt) ==
    LET sess1 == IF sess0[addr_info].exists THEN sess0
                 ELSE [sess0 EXCEPT ![addr_info] = MIDISession]
        sess == sess1[addr_info]
    IN CASE pkt.command = "PING" ->
              Dispatched(sess1,
                  <<[to |-> addr_info,
                     cmd |-> CommandPacket("PING_REPLY", 0, pkt.payload)]>>,
                  <<>>, "none")
         [] pkt.command = "INVITATION" ->
              IF sess.state \notin {"IDLE", "ESTABLISHED_SESSION"}
              THEN Dispatched(sess1, <<>>, <<>>, "AssertionError")
              ELSE LET remote_name_len == 4 * (pkt.specific_data \div 256)
                       cut == IF remote_name_len > Len(pkt.payload)
                              THEN Len(pkt.payload) ELSE remote_name_len
                       remote_name ==
                           decode_utf8(rstrip(SubSeq(pkt.payload, 1, cut)))
                       remote_piid ==
                           decode_ascii(rstrip(SubSeq(pkt.payload, cut + 1,
                                                      Len(pkt.payload))))
                   IN IF remote_name = <<-1>> \/ remote_piid = <<-1>>
                      THEN Dispatched(sess1, <<>>, <<>>, "UnicodeDecodeError")
                      ELSE Dispatched(
                             [sess1 EXCEPT ![addr_info] =
                                 [exists |-> TRUE,
                                  state |-> "ESTABLISHED_SESSION",
                                  remote |-> Remote(remote_name, remote_piid)]],
                             <<[to |-> addr_info,
                                cmd |-> get_identity("INVITATION_REPLY_ACCEPTED")]>>,
                             <<>>, "none")
         [] pkt.command = "UMP_DATA" ->
              IF sess.state # "ESTABLISHED_SESSION"
              THEN Dispatched(sess1, <<>>, <<>>, "AssertionError")
              ELSE Dispatched(sess1, <<>>, <<pkt.payload>>, "none")
         [] pkt.command = "BYE" ->
              IF decode_utf8(pkt.payload) = <<-1>>
              THEN Dispatched(sess1, <<>>, <<>>, "UnicodeDecodeError")
              ELSE Dispatched([sess1 EXCEPT ![addr_info] = NoSession],
                              <<>>, <<>>, "none")
         [] OTHER -> Dispatched(sess1, <<>>, <<>>, "none")

\* The addresses datagrams come from.
Peers == {"p1", "p2"}

NameBytes == <<99, 0, 0, 0>>        \* the name "c", padded
BadUtf8 == <<255, 0, 0, 0>>         \* no UTF-8 text starts with 0xFF

\* Commands a peer sends to the host.
HostCmds ==
    {CommandPacket("INVITATION", 256, NameBytes),
     CommandPacket("INVITATION", 256, BadUtf8),
     CommandPacket("PING", 0, PingPayload),
     CommandPacket("UMP_DATA", 0, NoOpBytes),
     CommandPacket("BYE", 256, <<>>),
     CommandPacket("BYE", 256, BadUtf8),
     CommandPacket("NAK", 0, <<>>)}

\* What recvfrom() and MIDIUDPPacket.parse hand to main(): see Datagram.
HostDatagrams ==
    {Datagram(p, "none", q) : p \in Peers, q \in SeqsUpTo(HostCmds, MaxCmds)}
    \cup {Datagram(p, e, <<>>) : p \in Peers, e \in {"ValueError", "struct.error"}}

\* Per address: whether an INVITATION was dispatched, and whether one was
\* accepted, since the last BYE was dispatched (or since the start).
NoInvitation == [invited |-> FALSE, accepted |-> FALSE]

Remember(h, cmd, exc) ==
    CASE cmd.command = "INVITATION" ->
            [invited |-> TRUE, accepted |-> h.accepted \/ exc = "none"]
      [] cmd.command = "BYE" -> NoInvitation
      [] OTHER -> h

\* The loop of main() (lines 68-72): each command goes through
\* dispatch_packet, an exception it raises is logged and the loop goes on.
\* The log keeps, per command, the session map before and after, what was
\* sent and delivered, and the exception.
RECURSIVE main_loop(_, _, _, _, _)
main_loop(sess, hist, addr_info, commands, log) ==
    IF commands = <<>> THEN [sessions |-> sess, hist |-> hist, log |-> log]
    ELSE LET cmd == Head(commands)
             r == dispatch_packet(sess, addr_info, cmd)
         IN main_loop(r.sessions,
                      [hist EXCEPT ![addr_info] = Remember(@, cmd, r.exc)],
                      addr_info, Tail(commands),
                      Append(log, [from |-> addr_info, cmd |-> cmd,
                                   before |-> sess, after |-> r.sessions,
                                   sent |-> r.sent, delivered |-> r.delivered,
                                   exc |-> r.exc, hist |-> hist[addr_info]]))

\* One turn of mainloop(): main() receives datagram d (UMPNetEndpoint.recv
\* parses it outside of any try) and dispatches its commands.
Main(d) ==
    /\ h_pc = "running"
    /\ IF d.error # "none"
       THEN /\ h_pc' = "stopped"
            /\ h_raised' = d.error
            /\ h_log' = <<>>
            /\ UNCHANGED <<sessions, h_hist>>
       ELSE LET r == main_loop(sessions, h_hist, d.addr, d.commands, <<>>)
            IN /\ sessions' = r.sessions
               /\ h_hist' = r.hist
               /\ h_log' = r.log
               /\ UNCHANGED <<h_pc, h_raised>>

\* MIDIHost(name) as __init__ builds it, mainloop() entered.
HostIdle ==
    /\ sessions = [p \in Peers |-> NoSession]
    /\ h_pc = "running"
    /\ h_raised = "none"
    /\ h_log = <<>>
    /\ h_hist = [p \in Peers |-> NoInvitation]

\* No framing is under way.
FramingIdle ==
    /\ f_cmds = <<>>
    /\ f_rest = <<>>
    /\ f_buf = <<>>
    /\ f_args = NoPacket
    /\ f_made = NoParse
    /\ f_parsed = NoParse
    /\ f_packet = NoParse

\* ------------------------------------------------------------------------
\* Specifications of the transport
\* ------------------------------------------------------------------------
\* UMPEndpoint(transport) as the dataclass builds it.
EndpointIdle ==
    /\ function_blocks = <<>>
    /\ name = NoneStr
    /\ _name_complete = FALSE
    /\ e_pc = "idle"
    /\ e_wait = FALSE
    /\ e_sent = <<>>
    /\ e_raised = "none"
    /\ e_op = [op |-> "init", kind |-> "-", id |-> 0]
    /\ e_hist = FreshHistory

\* UDPTransport(peer_ip, peer_port, auth=...) as the dataclass builds it.
InitTransport ==
    /\ auth \in AuthValues
    /\ _transport_connected = FALSE
    /\ session_established = FALSE
    /\ sock = "none"
    /\ tx_seq = 0
    /\ rx_queue = <<>>
    /\ pc = "idle"
    /\ raised = "none"
    /\ txcount = [c \in CommandCode |-> 0]
    /\ last_tx = NoPacket
    /\ last_op = [op |-> "init", src |-> "-", rx |-> <<>>]
    /\ hook = "none"
    /\ returned = <<>>
    /\ claimed = <<>>
    /\ dispatched = <<>>

\* The transport once connect() has returned: INVITATION sent and accepted.
InitEstablished ==
    /\ auth = AuthNone
    /\ _transport_connected = TRUE
    /\ session_established = TRUE
    /\ sock = "open"
    /\ tx_seq = 0
    /\ rx_queue = <<>>
    /\ pc = "idle"
    /\ raised = "none"
    /\ txcount = [c \in CommandCode |-> IF c = "INVITATION" THEN 1 ELSE 0]
    /\ last_tx = CommandPacket("INVITATION", ClientCapability_NONE, <<>>)
    /\ last_op = [op |-> "connect_step", src |-> "peer",
                  rx |-> <<"INVITATION_REPLY_ACCEPTED">>]
    /\ hook = "_connect"
    /\ returned = <<>>
    /\ claimed = <<>>
    /\ dispatched = <<>>

\* The connection lifecycle: connect(), the replies of the network while it
\* waits, disconnect().
Init == InitTransport /\ EndpointIdle /\ HostIdle /\ DeviceIdle /\ FramingIdle /\ CodecIdle

TConnect == TxTotal < MaxTx /\ Connect /\ UNCHANGED <<evars, hvars, fvars, uvars, dvars>>
TConnectStep ==
    /\ TxTotal < MaxTx
    /\ \E d \in ConnDatagrams : ConnectStep(d)
    /\ UNCHANGED <<evars, hvars, fvars, uvars, dvars>>
TDisconnect == TxTotal < MaxTx /\ Disconnect /\ UNCHANGED <<evars, hvars, fvars, uvars, dvars>>

Next == TConnect \/ TConnectStep \/ TDisconnect

Spec == Init /\ [][Next]_vars

\* recv() on an established session.
InitRecv == InitEstablished /\ EndpointIdle /\ HostIdle /\ DeviceIdle /\ FramingIdle /\ CodecIdle

RecvBudget == TxTotal < MaxTx /\ Len(claimed) < MaxRet

TRecv == RecvBudget /\ Recv /\ UNCHANGED <<evars, hvars, fvars, uvars, dvars>>
TRecvStep ==
    /\ RecvBudget
    /\ \E d \in RecvDatagrams : RecvStep(d)
    /\ UNCHANGED <<evars, hvars, fvars, uvars, dvars>>

NextRecv == TRecv \/ TRecvStep

SpecRecv == InitRecv /\ [][NextRecv]_vars

\* send() on an established session, as often as the caller likes.
InitSeq == InitEstablished /\ EndpointIdle /\ HostIdle /\ DeviceIdle /\ FramingIdle /\ CodecIdle

TSend == (\E m \in SendMessages : Send(m)) /\ UNCHANGED <<evars, hvars, fvars, uvars, dvars>>

NextSeq16 == TSend

SpecSeq == InitSeq /\ [][NextSeq16]_vars

\* A transport from its construction on: connect(), send(), recv() and
\* disconnect() in any order, sessions one after the other.
InitSession ==
    /\ InitTransport /\ auth = AuthNone
    /\ EndpointIdle /\ HostIdle /\ DeviceIdle /\ FramingIdle /\ CodecIdle

\* What arrives while the client connects: the reply alone, with data
\* after it and before it, data alone, PENDING; from another address an
\* ACCEPTED, a PING, data, and bytes that are no datagram of the protocol.
AcceptedReply == CommandPacket("INVITATION_REPLY_ACCEPTED", 0, <<>>)
PingCmd == CommandPacket("PING", 0, PingPayload)
DataCmd(seq, payload) == CommandPacket("UMP_DATA", seq, payload)

Strangers ==
    {Datagram("other", "none", <<c>>) : c \in {AcceptedReply, PingCmd, DataCmd(0, NoOpBytes)}}
    \cup {Datagram("other", "ValueError", <<>>)}

SessionConnDatagrams ==
    {Datagram("peer", "none", q) :
        q \in {<<AcceptedReply>>, <<AcceptedReply, DataCmd(0, NoOpBytes)>>,
               <<DataCmd(0, JRClockBytes), AcceptedReply>>, <<DataCmd(0, NoOpBytes)>>,
               <<CommandPacket("INVITATION_REPLY_PENDING", 0, <<>>)>>}}
    \cup Strangers

\* What arrives inside recv(): one message, two, one that does not decode
\* before one that does, a PING; and the same from another address.
SessionRecvDatagrams ==
    {Datagram("peer", "none", q) :
        q \in {<<DataCmd(1, NoOpBytes)>>,
               <<DataCmd(1, NoOpBytes), DataCmd(2, JRClockBytes)>>,
               <<DataCmd(1, BadUMPBytes), DataCmd(2, NoOpBytes)>>,
               <<PingCmd>>}}
    \cup Strangers

SConnectStep ==
    /\ \E d \in SessionConnDatagrams : ConnectStep(d)
    /\ UNCHANGED <<evars, hvars, fvars, uvars, dvars>>
SSend == TxTotal <= MaxTx /\ TSend
SRecvStep ==
    /\ RecvBudget
    /\ \E d \in SessionRecvDatagrams : RecvStep(d)
    /\ UNCHANGED <<evars, hvars, fvars, uvars, dvars>>

NextSession ==
    TConnect \/ SConnectStep \/ TDisconnect \/ SSend \/ TRecv \/ SRecvStep

SpecSession == InitSession /\ [][NextSession]_vars

\* ------------------------------------------------------------------------
\* Specification of the endpoint
\* ------------------------------------------------------------------------
\* The device stops adding to a name that has MaxName payloads.
NameRoom(pkt) ==
    LET id == pkt.function_block_id
    IN \/ pkt.kind \notin {"EndpointNameNotification",
                           "FunctionBlockNameNotification"}
       \/ is_starting(pkt.form)
       \/ /\ pkt.kind = "EndpointNameNotification"
          /\ Len(name.s) < MaxName
       \/ /\ pkt.kind = "FunctionBlockNameNotification"
          /\ id \in BlockIds => Len(e_hist.lit[id].exp.s) < MaxName
          /\ id < Len(function_blocks) =>
                Len(function_blocks[id + 1].name.s) < MaxName

InitEndpoint ==
    InitTransport /\ auth = AuthNone /\ EndpointIdle /\ HostIdle /\ DeviceIdle /\ FramingIdle /\ CodecIdle

EDispatch ==
    /\ \E pkt \in EndpointPackets : NameRoom(pkt) /\ Dispatch(pkt)
    /\ UNCHANGED <<tvars, hvars, fvars, uvars, dvars>>
EDiscover == (\E wait \in BOOLEAN : Discover(wait)) /\ UNCHANGED <<tvars, hvars, fvars, uvars, dvars>>
EDiscoverStep ==
    /\ \E pkt \in EndpointPackets : NameRoom(pkt) /\ DiscoverStep(pkt)
    /\ UNCHANGED <<tvars, hvars, fvars, uvars, dvars>>

NextEndpoint == EDispatch \/ EDiscover \/ EDiscoverStep

SpecEndpoint == InitEndpoint /\ [][NextEndpoint]_vars

\* ------------------------------------------------------------------------
\* Specification of discovery against a device that answers
\* ------------------------------------------------------------------------
InitDiscovery ==
    /\ InitTransport /\ auth = AuthNone /\ EndpointIdle /\ HostIdle
    /\ FramingIdle /\ CodecIdle
    /\ dev \in Devices
    /\ d_seen = 0
    /\ d_flight = {}

\* discover(wait_for_all_names) on the endpoint as it was built
DDiscover ==
    /\ e_sent = <<>>
    /\ \E wait \in BOOLEAN : Discover(wait)
    /\ UNCHANGED <<tvars, hvars, fvars, uvars, dvars>>

\* The device answers the next request discover() sent.
DAnswer ==
    /\ d_seen < Len(e_sent)
    /\ d_flight' = d_flight \cup Answers(dev, e_sent[d_seen + 1])
    /\ d_seen' = d_seen + 1
    /\ UNCHANGED <<dev, tvars, evars, hvars, fvars, uvars>>

\* transport.recv() returns the next notification of one of the streams and
\* the loop discover() is in takes its turn.
DDeliver ==
    /\ \E s \in d_flight :
          /\ DiscoverStep(Head(s))
          /\ d_flight' = (d_flight \ {s}) \cup
                         (IF Tail(s) = <<>> THEN {} ELSE {Tail(s)})
    /\ UNCHANGED <<dev, d_seen, tvars, hvars, fvars, uvars>>

NextDiscovery == DDiscover \/ DAnswer \/ DDeliver

\* The device answers every request, and recv() returns what has arrived.
FairDiscovery == WF_vars(DAnswer) /\ WF_vars(DDeliver)

SpecDiscovery == InitDiscovery /\ [][NextDiscovery]_vars /\ FairDiscovery

\* ------------------------------------------------------------------------
\* Specification of the host
\* ------------------------------------------------------------------------
InitHost ==
    InitTransport /\ auth = AuthNone /\ EndpointIdle /\ HostIdle /\ DeviceIdle /\ FramingIdle /\ CodecIdle

HMain ==
    /\ \E d \in HostDatagrams : Main(d)
    /\ UNCHANGED <<tvars, evars, fvars, uvars, dvars>>

NextHost == HMain

SpecHost == InitHost /\ [][NextHost]_vars

\* ------------------------------------------------------------------------
\* Specification of PING handling, on the host and in the client
\* ------------------------------------------------------------------------
\* The host and a connected client transport, each run from its initial
\* state while the other is at rest: they share no state, so the steps of
\* one change nothing the other reads.
InitPing == InitEstablished /\ EndpointIdle /\ HostIdle /\ DeviceIdle /\ FramingIdle /\ CodecIdle

ClientAtRest == last_op.op = "connect_step"
HostAtRest == HostIdle

PMain == ClientAtRest /\ HMain
PRecv == HostAtRest /\ TRecv
PRecvStep == HostAtRest /\ TRecvStep

NextPing == PMain \/ PRecv \/ PRecvStep

SpecPing == InitPing /\ [][NextPing]_vars

\* ------------------------------------------------------------------------
\* Specification of the framing
\* ------------------------------------------------------------------------
\* Well-formed command packets: payloads of 0, 1, 2 and 255 words, auxiliary
\* values at both ends of 0..65535 and with unequal bytes.
FrameCmds ==
    {CommandPacket("INVITATION", 258, NameBytes),
     CommandPacket("PING", 0, PingPayload),
     CommandPacket("UMP_DATA", 65535, NoOpBytes \o JRClockBytes),
     CommandPacket("BYE", 256, <<>>),
     CommandPacket("NAK", 0, [i \in 1..1020 |-> i % 256]),
     CommandPacket("UMP_DATA", 1, Magic)}

\* What may follow a packet in a buffer: nothing, a stray byte, another
\* packet, the magic.
FrameRests ==
    {<<>>, <<7>>, Magic, CommandPacket_bytes(CommandPacket("PING", 0, PingPayload))}

InitFraming ==
    /\ InitTransport /\ auth = AuthNone /\ EndpointIdle /\ HostIdle /\ DeviceIdle /\ CodecIdle
    /\ f_cmds \in SeqsUpTo(FrameCmds, MaxCmds)
    /\ f_rest \in FrameRests
    /\ f_buf = <<>>
    /\ f_args = NoPacket
    /\ f_made = NoParse
    /\ f_parsed = NoParse
    /\ f_packet = NoParse

\* parse(bytes(...)) of the first packet followed by f_rest, and of the
\* whole list in its envelope.
Frame ==
    /\ f_packet = NoParse
    /\ f_parsed' = IF f_cmds = <<>> THEN NoParse
                   ELSE CommandPacket_parse(
                            CommandPacket_bytes(Head(f_cmds)) \o f_rest)
    /\ f_packet' = MIDIUDPPacket_parse(MIDIUDPPacket_bytes(f_cmds))
    /\ UNCHANGED <<f_cmds, f_rest, f_buf, f_args, f_made, tvars, evars, hvars, uvars, dvars>>

NextFraming == Frame

SpecFraming == InitFraming /\ [][NextFraming]_vars

\* ------------------------------------------------------------------------
\* Specification of construction and parsing
\* ------------------------------------------------------------------------
\* What a buffer starts with: the magic, another four bytes, two bytes, nothing.
ParseHeads == {Magic, <<77, 73, 68, 74>>, <<77, 73>>, <<>>}

\* What follows: whole packets (payloads of 0, 1 and 2 words), a packet
\* that declares two words and holds one, a header cut short, a command
\* code that does not exist, a stray byte.
ParseChunks ==
    {CommandPacket_bytes(CommandPacket("PING", 0, PingPayload)),
     CommandPacket_bytes(CommandPacket("BYE", 256, <<>>)),
     CommandPacket_bytes(CommandPacket("UMP_DATA", 1, NoOpBytes \o JRClockBytes)),
     <<255, 2, 0, 0>> \o NoOpBytes,
     <<255, 0>>,
     <<5, 0, 0, 0>>,
     <<7>>}

RECURSIVE Concat(_)
Concat(chunks) ==
    IF chunks = <<>> THEN <<>> ELSE Head(chunks) \o Concat(Tail(chunks))

ParseBuffers ==
    {h \o Concat(q) : h \in ParseHeads, q \in SeqsUpTo(ParseChunks, MaxCmds)}

\* Payloads handed to the constructor: 0 to 9 bytes.
CtorPayloads == {[i \in 1..n |-> 42] : n \in 0..9}

InitParse ==
    /\ InitTransport /\ auth = AuthNone /\ EndpointIdle /\ HostIdle /\ DeviceIdle /\ CodecIdle
    /\ f_cmds = <<>>
    /\ f_rest = <<>>
    /\ f_buf \in ParseBuffers
    /\ f_args = NoPacket
    /\ f_made = NoParse
    /\ f_parsed = NoParse
    /\ f_packet = NoParse

\* CommandPacket(command=c, payload=pl)
Construct ==
    /\ \E c \in {"UMP_DATA", "PING"}, pl \in CtorPayloads :
          /\ f_args' = CommandPacket(c, 0, pl)
          /\ f_made' = CommandPacket_init(c, 0, pl)
    /\ UNCHANGED <<f_cmds, f_rest, f_buf, f_parsed, f_packet, tvars, evars, hvars, uvars, dvars>>

\* CommandPacket.parse(f_buf)
ParseOne ==
    /\ f_parsed' = CommandPacket_parse(f_buf)
    /\ UNCHANGED <<f_cmds, f_rest, f_buf, f_args, f_made, f_packet, tvars, evars, hvars, uvars, dvars>>

\* MIDIUDPPacket.parse(f_buf)
ParseAll ==
    /\ f_packet' = MIDIUDPPacket_parse(f_buf)
    /\ UNCHANGED <<f_cmds, f_rest, f_buf, f_args, f_made, f_parsed, tvars, evars, hvars, uvars, dvars>>

NextParse == Construct \/ ParseOne \/ ParseAll

SpecParse == InitParse /\ [][NextParse]_vars

\* ------------------------------------------------------------------------
\* Specification of the UMP codec
\* ------------------------------------------------------------------------
\* Values of fields, at both ends of their width and between.
Nibbles == {0, 15}
Sevens == {0, 64, 127}
Bytes8 == {0, 255}
Fourteens == {0, 129, 16383}
Sixteens == {0, 2500, 65535}
Words32 == {NoWord, <<18, 52, 86, 120>>, <<255, 255, 255, 255>>}
Forms == 0..3
Versions == {<<1, 1>>, <<0, 255>>}

\* Names: none, "Hi", one two-byte character, fourteen and thirteen letters.
Names14 == {<<>>, <<72, 105>>, <<233>>, [i \in 1..14 |-> 64 + i]}
Ids14 == {<<>>, <<72, 105>>, [i \in 1..14 |-> 64 + i]}
Names13 == {<<>>, <<72, 105>>, <<233>>, [i \in 1..13 |-> 64 + i]}

\* The pitch bend values the messages of group 2, channel 4 take.
PitchBends == -8192..8191

Of(cls, F) == {UMPValue(cls, f) : f \in F}

\* Messages of every class that has a constructor of its own, with fields
\* within the width of their place in the word.
UtilityMessages ==
    {UMPValue("NoOp", <<>>)}
    \cup Of("JRClock", {<<t>> : t \in {0, 5, 1048575}})
    \cup Of("JRTimestamp", {<<t>> : t \in {0, 5, 1048575}})

SystemRealTimeMessages ==
    Of("MIDITimeCode", (0..7) \X Nibbles)
    \cup Of("SongPositionPointer", {<<p>> : p \in Fourteens})

MIDI1Messages ==
    Of("MIDI1NoteOff", Nibbles \X Nibbles \X Sevens \X Sevens)
    \cup Of("MIDI1NoteOn", Nibbles \X Nibbles \X Sevens \X Sevens)
    \cup Of("MIDI1ControlChange", Nibbles \X Nibbles \X Sevens \X Sevens)
    \cup Of("MIDI1ProgramChange", Nibbles \X Nibbles \X Sevens)
    \cup Of("MIDI1PitchBend", Nibbles \X Nibbles \X {-8192, -1, 0, 8191})
    \cup Of("MIDI1PitchBend", {2} \X {4} \X PitchBends)

MIDI2Messages ==
    Of("MIDI2NoteOff", Nibbles \X Nibbles \X Sevens \X Bytes8 \X Sixteens \X Sixteens)
    \cup Of("MIDI2NoteOn", Nibbles \X Nibbles \X Sevens \X Bytes8 \X Sixteens \X Sixteens)
    \cup Of("MIDI2ControlChange", Nibbles \X Nibbles \X Sevens \X Words32)
    \cup Of("MIDI2ProgramChange", Nibbles \X Nibbles \X Sevens \X BOOLEAN \X Fourteens)
    \cup Of("MIDI2PitchBend", Nibbles \X Nibbles \X Words32)

DataMessages ==
    Of("Data64", Nibbles \X Forms
                 \X {<<>>, <<1>>, <<127, 0>>, <<1, 2, 3, 4, 5, 6>>})
    \cup Of("Data128", Nibbles \X Forms \X Bytes8
                       \X {<<>>, <<255>>, <<7, 0>>, [i \in 1..13 |-> 19 * i]})

\* group, form, address, channel, status
FlexDataMessages ==
    Of("SetupAndPerformanceEvent", Nibbles \X Forms \X {0} \X Nibbles \X {0, 16})
    \cup Of("MetadataText", Nibbles \X Forms \X {0} \X Nibbles \X {1, 12})
    \cup Of("PerformanceTextEvent", Nibbles \X Forms \X {0} \X Nibbles \X {1, 4})

UMPStreamMessages ==
    Of("EndpointDiscovery", Forms \X Versions \X {0, 1, 31})
    \cup Of("EndpointInfoNotification",
            {0} \X Versions \X BOOLEAN \X {0, 1, 127} \X BOOLEAN \X BOOLEAN
                \X BOOLEAN \X BOOLEAN)
    \cup Of("DeviceIdentityNotification",
            Forms \X {<<0, 0, 0>>, <<1, 2, 127>>} \X Fourteens \X Fourteens
                  \X {<<0, 0, 0, 0>>, <<1, 2, 3, 127>>})
    \cup Of("EndpointNameNotification", Forms \X Names14)
    \cup Of("ProductInstanceIdNotification", Forms \X Ids14)
    \cup Of("StreamConfigurationRequest", Forms \X Bytes8 \X BOOLEAN)
    \cup Of("StreamConfigurationNotification", Forms \X Bytes8 \X BOOLEAN)
    \cup Of("FunctionBlockDiscovery", Forms \X Bytes8 \X {0, 1, 3})
    \cup Of("FunctionBlockInfoNotification",
            {0} \X BOOLEAN \X {0, 127} \X BOOLEAN \X BOOLEAN \X {0, 1, 2}
                \X BOOLEAN \X BOOLEAN \X {0, 15} \X {1, 16} \X Bytes8 \X Bytes8)
    \cup Of("FunctionBlockNameNotification", Forms \X Bytes8 \X Names13)
    \cup Of("StartOfClip", {<<f>> : f \in Forms})
    \cup Of("EndOfClip", {<<f>> : f \in Forms})

CodecMessages ==
    UtilityMessages \cup SystemRealTimeMessages \cup MIDI1Messages
    \cup MIDI2Messages \cup DataMessages \cup FlexDataMessages
    \cup UMPStreamMessages

\* Words as they arrive: every status of SystemRealTime, every pair of
\* data bytes of a MIDI1 pitch bend of group 2, channel 4, and words that
\* the other families refuse or read past the end of.
CodecWords ==
    {<<<<16 + g, status, b, 0>>>> : g \in Nibbles, status \in 0..255, b \in {0, 127}}
    \cup {<<<<34, 228, lsb, msb>>>> : lsb \in 0..127, msb \in 0..127}
    \cup {<<<<34, 228, lsb, msb>>>> : lsb \in {168, 255}, msb \in {201, 255}}
    \cup {<<>>, <<<<96, 0, 0, 0>>>>, <<<<0, 48, 0, 0>>>>, <<<<0, 80, 0, 0>>>>,
          <<<<32, 160, 0, 0>>>>, <<<<32, 0, 0, 0>>>>,
          <<<<64, 144, 0, 0>>>>, <<<<64, 112, 0, 0>>, NoWord>>,
          <<<<48, 1, 0, 0>>>>, <<<<48, 70, 255, 1>>, <<2, 3, 4, 5>>>>,
          <<<<80, 1, 0, 0>>, NoWord, NoWord>>,
          <<<<208, 0, 0, 0>>, NoWord, NoWord, NoWord>>,
          <<<<208, 0, 1, 13>>, NoWord, NoWord, NoWord>>,
          <<<<208, 0, 3, 0>>, NoWord, NoWord, NoWord>>,
          <<<<240, 7, 0, 0>>, NoWord, NoWord, NoWord>>,
          <<<<240, 3, 255, 0>>, NoWord, NoWord, NoWord>>,
          <<<<240, 18, 1, 255>>, <<72, 0, 105, 0>>, NoWord, NoWord>>,
          <<<<240, 17, 0, 12>>>>, <<<<240, 17, 0, 0>>>>,
          <<<<240, 32, 0, 0>>>>}

\* A message to encode, or words that were received.
InitCodec ==
    /\ InitTransport /\ auth = AuthNone /\ EndpointIdle /\ HostIdle /\ DeviceIdle /\ FramingIdle
    /\ \/ u_msg \in CodecMessages /\ u_in = <<>>
       \/ u_msg = NoMessage /\ u_in \in CodecWords
    /\ u_enc = NotEncoded
    /\ u_dec = NotParsed

\* UMP.parse(u_msg.encode())
RoundTrip ==
    /\ u_msg # NoMessage
    /\ u_enc = NotEncoded
    /\ LET e == encode_words(u_msg)
       IN /\ u_enc' = e
          /\ u_in' = e.words
          /\ u_dec' = IF e.exc = "none" THEN UMP_parse(e.words) ELSE NotParsed
    /\ UNCHANGED <<u_msg, tvars, evars, hvars, fvars, dvars>>

\* UMP.parse(u_in) of words that were received
Decode ==
    /\ u_msg = NoMessage
    /\ u_dec = NotParsed
    /\ u_dec' = UMP_parse(u_in)
    /\ UNCHANGED <<u_msg, u_enc, u_in, tvars, evars, hvars, fvars, dvars>>

NextCodec == RoundTrip \/ Decode

SpecCodec == InitCodec /\ [][NextCodec]_vars

\* ------------------------------------------------------------------------
\* Claims about the transport
\* ------------------------------------------------------------------------
Range(q) == {q[i] : i \in 1..Len(q)}

ProgramVars == <<auth, _transport_connected, session_established, sock,
                 tx_seq, rx_queue>>
Wire == <<txcount, last_tx>>

\* C1: every send() succeeds and the (k+1)-th successful send() carries the
\* auxiliary value k mod 2^16, the counter wrapping from 65535 to 0.
C1_SequenceWraps ==
    last_op.op = "send" =>
        /\ raised = "none"
        /\ last_tx.command = "UMP_DATA"
        /\ last_tx.specific_data = (txcount["UMP_DATA"] - 1) % 65536

\* C2 as claimed: what recv() has returned, followed by what waits in the
\* queue, is exactly the decodable UMP_DATA commands of the datagrams recv()
\* read from the peer, in arrival and command order.
C2_ReturnsEveryDecodable ==
    returned \o rx_queue = claimed

\* C2 as amended: what recv() has returned, followed by what waits in the
\* queue, is exactly the decodable UMP_DATA commands that precede the first
\* undecodable UMP_DATA command of their datagram, in arrival and command
\* order; what is returned is a decoded UMP message, never a control command.
C2_RecvIsFifo ==
    /\ returned \o rx_queue = dispatched
    /\ \A i \in 1..Len(returned) : returned[i].cls \in {"NoOp", "JRClock", "JRTimestamp"}
    /\ Len(returned) <= Len(claimed)

\* Two different messages came back in the order sent, a PING was answered
\* on the way, and a datagram lost its tail to an undecodable command.
C2_Witness ==
    /\ Len(returned) >= 2
    /\ returned[1] = UMPValue("JRClock", <<5>>)
    /\ returned[2] = UMPValue("NoOp", <<>>)
    /\ txcount["PING_REPLY"] >= 1
    /\ claimed # dispatched


\* The three replies check_invitation acts on.
InvitationReplies ==
    {"INVITATION_REPLY_ACCEPTED", "INVITATION_REPLY_AUTH_REQUIRED",
     "INVITATION_REPLY_USER_AUTH_REQUIRED"}

RECURSIVE OnlyReplies(_)
OnlyReplies(cmds) ==
    IF cmds = <<>> THEN <<>>
    ELSE (IF Head(cmds).command \in InvitationReplies THEN <<Head(cmds)>> ELSE <<>>)
         \o OnlyReplies(Tail(cmds))

FromPeer(d) == d.addr = "peer" /\ d.error = "none"

\* C3: connect() sends one INVITATION and no second one while it waits; it
\* returns normally only in a step that processed an
\* INVITATION_REPLY_ACCEPTED of the peer, session_established being false
\* until then and true from then on; a command that is none of the three
\* replies sends nothing and changes nothing, alone or among others.
C3_Step ==
    /\ (Connect /\ ~_transport_connected) =>
          /\ txcount' = [txcount EXCEPT !["INVITATION"] = @ + 1]
          /\ last_tx' = CommandPacket("INVITATION", 0, <<>>)
    /\ pc' = "connect" => ~session_established'
    /\ \A d \in ConnDatagrams : ConnectStep(d) =>
          /\ txcount'["INVITATION"] = txcount["INVITATION"]
          /\ (pc' = "idle" /\ raised' = "none") =>
                /\ FromPeer(d)
                /\ "INVITATION_REPLY_ACCEPTED" \in Range(Codes(d.commands))
                /\ session_established' /\ _transport_connected'
          /\ session_established' =>
                "INVITATION_REPLY_ACCEPTED" \in Range(Codes(d.commands))
          /\ (FromPeer(d) /\ OnlyReplies(d.commands) = <<>>) =>
                /\ UNCHANGED <<ProgramVars, Wire, pc, raised>>
          /\ FromPeer(d) =>
                LET st == check_all(LoopState(session_established, rx_queue,
                                              <<>>, "none"),
                                    OnlyReplies(d.commands))
                IN /\ session_established' = st.established
                   /\ txcount' = CountTx(txcount, st.out)
                   /\ last_tx' = LastTx(last_tx, st.out)
                   /\ raised' = st.exc

C3_ConnectHandshake == [][C3_Step]_vars

\* connect() returned after a reply it had to ignore and the acceptance.
C3_Witness ==
    /\ last_op.op = "connect_step"
    /\ last_op.rx = <<"INVITATION_REPLY_PENDING", "INVITATION_REPLY_ACCEPTED">>
    /\ pc = "idle" /\ raised = "none"
    /\ _transport_connected /\ session_established
    /\ txcount["INVITATION"] = 1

\* C4: when connect() fails for want of credentials the session is not
\* established and nothing was sent besides the INVITATION; nothing is sent
\* later either, whatever is called.
C4_AuthFailure ==
    hook = "_connect_raised"
    /\ raised \in {"SharedSecretRequiredError", "UserPasswordRequiredError"}
    => /\ ~session_established
       /\ ~_transport_connected

C4_NoFurtherPacket ==
    [][(hook = "_connect_raised" /\ hook' = hook)
        => UNCHANGED Wire]_vars

\* The AUTH_REQUIRED commands that check_invitation gets to see when a
\* shared secret is configured: those before the first reply it fails on.
RECURSIVE ChallengesSeen(_)
ChallengesSeen(cmds) ==
    IF cmds = <<>> \/ Head(cmds).command = "INVITATION_REPLY_USER_AUTH_REQUIRED"
    THEN <<>>
    ELSE (IF Head(cmds).command = "INVITATION_REPLY_AUTH_REQUIRED"
          THEN <<Head(cmds)>> ELSE <<>>) \o ChallengesSeen(Tail(cmds))

AllChallenges(cmds) ==
    /\ cmds # <<>>
    /\ \A i \in 1..Len(cmds) : cmds[i].command = "INVITATION_REPLY_AUTH_REQUIRED"

\* C5: with a shared secret, each AUTH_REQUIRED challenge processed is
\* answered by one INVITATION_WITH_AUTH carrying the 32 bytes of
\* SHA-256(challenge || secret) and by no other packet; a datagram of
\* challenges leaves the session not established and connect() waiting.
C5_Step ==
    \A d \in ConnDatagrams :
        (auth.kind = "str" /\ FromPeer(d) /\ ConnectStep(d)) =>
            LET seen == ChallengesSeen(d.commands)
                answer == CommandPacket("INVITATION_WITH_AUTH", 0,
                              sha256(seen[Len(seen)].payload \o encode(auth.pwd)))
            IN /\ txcount' = [txcount EXCEPT
                                 !["INVITATION_WITH_AUTH"] = @ + Len(seen)]
               /\ seen # <<>> => /\ last_tx' = answer
                                 /\ Len(last_tx'.payload) = 32
               /\ seen = <<>> => last_tx' = last_tx
               /\ AllChallenges(d.commands) =>
                     /\ ~session_established'
                     /\ pc' = "connect" /\ raised' = "none"
                     /\ UNCHANGED ProgramVars

C5_SharedSecretAnswer == [][C5_Step]_vars

\* The second challenge was answered and connect() is still waiting.
C5_Witness ==
    /\ auth = AuthSecret
    /\ pc = "connect" /\ ~session_established
    /\ last_op.rx = <<"INVITATION_REPLY_AUTH_REQUIRED">>
    /\ txcount["INVITATION_WITH_AUTH"] = 1
    /\ last_tx = CommandPacket("INVITATION_WITH_AUTH", 0,
                               sha256(Challenge2 \o encode(AuthSecret.pwd)))
    /\ last_tx.payload # sha256(Challenge1 \o encode(AuthSecret.pwd))

\* C6: disconnect() after a connect attempt sends one BYE, with reason
\* USER_TERMINATED if the session was established and INVITATION_CANCELLED
\* if it was not, closes the socket and leaves session_established false.
C6_Step ==
    (Disconnect /\ sock = "open") =>
        /\ txcount' = [txcount EXCEPT !["BYE"] = @ + 1]
        /\ last_tx' = CommandPacket("BYE",
              (IF session_established THEN USER_TERMINATED
               ELSE INVITATION_CANCELLED) * 256, <<>>)
        /\ sock' = "closed"
        /\ ~session_established'

C6_DisconnectSendsBye == [][C6_Step]_vars

\* C7 without its last part: disconnect() on a transport that is not
\* connected and connect() on one that is raise nothing, send nothing and
\* change nothing.
C7_Misuse ==
    /\ (Disconnect /\ ~_transport_connected) =>
          raised' = "none" /\ UNCHANGED <<ProgramVars, Wire, pc, hook>>
    /\ (Connect /\ _transport_connected) =>
          raised' = "none" /\ UNCHANGED <<ProgramVars, Wire, pc, hook>>

RunsConnect == Connect /\ pc' = "connect"
RunsDisconnect == Disconnect /\ hook' = "_disconnect"

Slot(id) == function_blocks[id + 1]

C9_CompleteMeansComplete ==
    /\ _name_complete => ~name.is_none /\ e_hist.ep.done
    /\ \A id \in BlockIds :
          (id < Len(function_blocks) /\ Slot(id).some /\ Slot(id)._name_complete)
              => ~Slot(id).name.is_none /\ e_hist.fb[id].done
    /\ has_all_names(Endpoint) => ~name.is_none /\ e_hist.ep.done

\* C10: dispatching a FunctionBlockInfoNotification or a
\* FunctionBlockNameNotification whose function_block_id is at least the
\* number of slots raises nothing and changes neither the slots, nor the
\* endpoint name, nor a completeness flag.
C10_Step ==
    \A pkt \in EndpointPackets :
        (/\ pkt.kind \in {"FunctionBlockInfoNotification",
                          "FunctionBlockNameNotification"}
         /\ pkt.function_block_id >= Len(function_blocks)
         /\ (Dispatch(pkt) \/ DiscoverStep(pkt)))
        => /\ e_raised' = "none"
           /\ UNCHANGED <<function_blocks, name, _name_complete>>

C10_UnknownBlockDropped == [][C10_Step]_vars

\* An info notification for block 1 met one slot, which holds a named block.
C10_Witness ==
    /\ e_op.kind = "FunctionBlockInfoNotification"
    /\ e_op.id = Len(function_blocks)
    /\ Len(function_blocks) = 1
    /\ Slot(0).some /\ ~Slot(0).name.is_none
    /\ e_raised = "none"

\* C11: once an EndpointInfoNotification has been dispatched since the last
\* reset, function_blocks has the length that first notification declared,
\* whatever is dispatched later.
C11_LengthFixed ==
    e_hist.info.seen => Len(function_blocks) = e_hist.info.n

\* C12: discover() sends one EndpointDiscovery with filter ALL first, no
\* FunctionBlockDiscovery before an EndpointInfoNotification was dispatched,
\* then one FunctionBlockDiscovery with filter ALL for each of block_num
\* 0..n-1 in ascending order, n being the count the endpoint declared, and
\* nothing else.
C12_RequestOrder ==
    e_op.op \in {"discover", "discover_step"} =>
        /\ e_sent # <<>>
        /\ e_sent[1] = [msg |-> "EndpointDiscovery", filter |-> "ALL",
                        block_num |-> 0]
        /\ ~e_hist.info.seen => Len(e_sent) = 1
        /\ Len(e_sent) \in {1, 1 + e_hist.info.n}
        /\ \A i \in 2..Len(e_sent) :
              e_sent[i] = [msg |-> "FunctionBlockDiscovery", filter |-> "ALL",
                           block_num |-> i - 2]

\* The part of C12 that does not depend on which notification counts as the
\* declaration: after the EndpointDiscovery come the requests for blocks
\* 0..n-1 in order, n being the number of slots, all at once when the slots
\* are allocated.
C12_OneRequestPerSlot ==
    e_op.op \in {"discover", "discover_step"} =>
        /\ e_sent # <<>>
        /\ e_sent[1] = [msg |-> "EndpointDiscovery", filter |-> "ALL",
                        block_num |-> 0]
        /\ Len(e_sent) = 1 + Len(function_blocks)
        /\ \A i \in 2..Len(e_sent) :
              e_sent[i] = [msg |-> "FunctionBlockDiscovery", filter |-> "ALL",
                           block_num |-> i - 2]

InStep2(pkt) ==
    /\ e_pc = "wait_info"
    /\ pkt.kind # "EndpointInfoNotification"
    /\ DiscoverStep(pkt)

\* C13 as claimed: while discover() waits for the EndpointInfoNotification,
\* a received message of another kind leaves the endpoint name, its
\* completeness flag and the slot list as they were.
C13_Step2Discards ==
    [][\A pkt \in EndpointPackets :
          InStep2(pkt) => UNCHANGED <<name, _name_complete, function_blocks>>]_vars

\* C13 as amended: while discover() waits for the EndpointInfoNotification,
\* a received message of another kind is dispatched like any other: the
\* slot list stays empty, discover() keeps waiting and sends nothing, an
\* EndpointNameNotification is applied to the endpoint name by the chunk
\* rule, and every other message changes neither name nor flag.
C13_Step2Dispatches ==
    [][\A pkt \in EndpointPackets :
          InStep2(pkt) =>
            /\ function_blocks' = <<>>
            /\ e_pc' = "wait_info"
            /\ e_raised' = "none"
            /\ UNCHANGED e_sent
            /\ pkt.kind # "EndpointNameNotification" =>
                  UNCHANGED <<name, _name_complete>>
            /\ (pkt.kind = "EndpointNameNotification"
                /\ pkt.form \in {"COMPLETE", "START"}) =>
                  /\ name' = Str(pkt.name)
                  /\ _name_complete' = (pkt.form = "COMPLETE")
            /\ (pkt.kind = "EndpointNameNotification"
                /\ pkt.form \in {"CONTINUE", "END"}) =>
                  IF name.is_none THEN UNCHANGED <<name, _name_complete>>
                  ELSE /\ name' = Str(name.s \o pkt.name)
                       /\ _name_complete' = (_name_complete \/ pkt.form = "END")]_vars

\* discover() still waits for the EndpointInfoNotification and the endpoint
\* name has arrived whole, in two notifications.
C13_Witness ==
    /\ e_pc = "wait_info"
    /\ e_op.op = "discover_step"
    /\ e_op.kind = "EndpointNameNotification"
    /\ name = Str(<<"Euro", "rack">>)
    /\ _name_complete
    /\ function_blocks = <<>>

\* ------------------------------------------------------------------------
\* Claims about the framing
\* ------------------------------------------------------------------------
\* C20: CommandPacket.parse(bytes(p) + rest) is (p, rest) for a well-formed
\* p and any rest, and MIDIUDPPacket.parse(bytes(MIDIUDPPacket(cmds)))
\* has the commands cmds, the empty list included.
C20_FramingRoundTrip ==
    f_packet # NoParse =>
        /\ f_packet = [exc |-> "none", commands |-> f_cmds, rest |-> <<>>]
        /\ f_cmds # <<>> =>
              f_parsed = [exc |-> "none", commands |-> <<Head(f_cmds)>>,
                          rest |-> f_rest]

\* Two packets came back from their envelope, the first with a payload of
\* 255 words, and the first alone came back with the bytes that followed it.
C20_Witness ==
    /\ f_packet # NoParse
    /\ Len(f_packet.commands) = 2
    /\ Len(f_packet.commands[1].payload) = 1020
    /\ f_packet.commands[2].specific_data = 258
    /\ f_parsed.rest = Magic

\* ------------------------------------------------------------------------
\* Claims about the host
\* ------------------------------------------------------------------------
Entries == {h_log[i] : i \in 1..Len(h_log)}

\* The state of the sender's session when the command was dispatched, a
\* missing entry counting as Idle.
PriorState(e) == e.before[e.from].state

Others(e) == \A q \in Peers \ {e.from} : e.after[q] = e.before[q]

\* dispatch_packet for a session that is in state st.
InState(st, p, cmd) ==
    dispatch_packet(
        [sessions EXCEPT ![p] = [exists |-> TRUE, state |-> st,
                                 remote |-> NoRemote]], p, cmd)

\* In a state other than Idle and EstablishedSession the INVITATION raises,
\* is not answered and leaves the session map as it was.
IllegalInvitationRefused ==
    \A p \in Peers, st \in SessionState \ {"IDLE", "ESTABLISHED_SESSION"} :
        \A cmd \in {c \in HostCmds : c.command = "INVITATION"} :
            LET r == InState(st, p, cmd)
            IN /\ r.exc = "AssertionError"
               /\ r.sent = <<>>
               /\ r.sessions[p].state = st
               /\ \A q \in Peers \ {p} : r.sessions[q] = sessions[q]

Accepted(e) ==
    /\ e.exc = "none"
    /\ Len(e.sent) = 1
    /\ e.sent[1].to = e.from
    /\ e.sent[1].cmd.command = "INVITATION_REPLY_ACCEPTED"
    /\ e.after[e.from].exists
    /\ e.after[e.from].state = "ESTABLISHED_SESSION"
    /\ ~e.after[e.from].remote.is_none

\* C14 as claimed: an INVITATION from a peer whose session is Idle, missing
\* or established records the remote identity, is answered by one
\* INVITATION_REPLY_ACCEPTED to that peer and leaves the session
\* established; in any other state it is refused.
C14_InvitationAccepted ==
    /\ \A e \in Entries : e.cmd.command = "INVITATION" => Accepted(e)
    /\ IllegalInvitationRefused

\* The name and the product instance id decode, as UTF-8 and as ASCII.
IdentityDecodes(cmd) ==
    LET n == 4 * (cmd.specific_data \div 256)
        cut == IF n > Len(cmd.payload) THEN Len(cmd.payload) ELSE n
    IN /\ decode_utf8(rstrip(SubSeq(cmd.payload, 1, cut))) # <<-1>>
       /\ decode_ascii(rstrip(SubSeq(cmd.payload, cut + 1, Len(cmd.payload))))
             # <<-1>>

\* C14 as amended: that holds when the identity in the payload decodes, and
\* the identity recorded is the decoded one; an INVITATION whose identity
\* does not decode raises UnicodeDecodeError, is not answered and leaves the
\* sender's session in the state it was in (an entry in state Idle if there
\* was none); the sessions of other peers are never touched.
C14_InvitationHandled ==
    /\ \A e \in Entries : e.cmd.command = "INVITATION" =>
          /\ Others(e)
          /\ IdentityDecodes(e.cmd) =>
                /\ Accepted(e)
                /\ e.cmd.payload = NameBytes =>
                      e.after[e.from].remote =
                          [is_none |-> FALSE, name |-> <<99>>, piid |-> <<>>]
          /\ ~IdentityDecodes(e.cmd) =>
                /\ e.exc = "UnicodeDecodeError"
                /\ e.sent = <<>>
                /\ e.after[e.from].exists
                /\ e.after[e.from].state = PriorState(e)
                /\ e.after[e.from].remote = e.before[e.from].remote
    /\ IllegalInvitationRefused

\* An established peer invited again and was accepted again, and an
\* invitation with an undecodable name was refused.
C14_Witness ==
    /\ \E e \in Entries :
          /\ e.cmd.command = "INVITATION"
          /\ e.before[e.from].state = "ESTABLISHED_SESSION"
          /\ e.exc = "none"
    /\ \E e \in Entries :
          e.cmd.command = "INVITATION" /\ e.exc = "UnicodeDecodeError"

IsPing(c) == c.command = "PING"

\* On the host: one PING_REPLY with the payload of the PING, to the sender,
\* and no existing session changed.
HostAnswersPing ==
    \A e \in Entries : e.cmd.command = "PING" =>
        /\ e.exc = "none"
        /\ Len(e.sent) = 1
        /\ e.sent[1].to = e.from
        /\ e.sent[1].cmd.command = "PING_REPLY"
        /\ e.sent[1].cmd.payload = e.cmd.payload
        /\ \A q \in Peers : e.before[q].exists => e.after[q] = e.before[q]

\* In recv(): one PING_REPLY per PING dispatched, the last one with the
\* payload of the last PING, and the FIFO grows by the decoded UMP_DATA only.
ClientAnswersPing ==
    \A d \in RecvDatagrams :
        (FromPeer(d) /\ RecvStep(d)) =>
            LET seen == BeforeFailure(d.commands)
                pings == SelectSeq(seen, IsPing)
            IN /\ txcount' = [txcount EXCEPT !["PING_REPLY"] = @ + Len(pings)]
               /\ pings # <<>> =>
                     /\ last_tx'.command = "PING_REPLY"
                     /\ last_tx'.payload = pings[Len(pings)].payload
               /\ pings = <<>> => last_tx' = last_tx
               /\ returned' \o rx_queue' = returned \o rx_queue \o Decodable(seen)

\* C15: every PING dispatched, by the host in any session state of the
\* sender or by recv() of the client, is answered by one PING_REPLY with the
\* same payload, sent to the sender, and changes neither an existing
\* session nor the receive FIFO.
C15_PingAnswered == []HostAnswersPing /\ [][ClientAnswersPing]_vars

\* The host answered a PING of a peer it has no session with.
C15_HostWitness ==
    \E e \in Entries :
        /\ e.cmd.command = "PING"
        /\ ~e.before[e.from].exists
        /\ e.sent[1].cmd.payload = PingPayload

\* recv() answered a PING on its way to a message.
C15_Witness ==
    /\ last_op.op = "recv_step"
    /\ last_op.rx = <<"PING", "UMP_DATA">>
    /\ txcount["PING_REPLY"] = 1
    /\ last_tx = CommandPacket("PING_REPLY", 0, PingPayload)
    /\ Len(returned) = 1

\* C16: the host delivers the payload of a UMP_DATA only if the sender's
\* session is established, that is if an INVITATION of the sender was
\* accepted and no BYE of it was dispatched since; otherwise the command
\* fails and nothing is delivered.
C16_DataOnlyWhenEstablished ==
    \A e \in Entries : e.cmd.command = "UMP_DATA" =>
        IF PriorState(e) = "ESTABLISHED_SESSION" /\ e.hist.accepted
        THEN e.delivered = <<e.cmd.payload>> /\ e.exc = "none"
        ELSE e.delivered = <<>> /\ e.exc # "none"

\* The part of C16 that is about the state of the session alone.
C16_DataFollowsState ==
    \A e \in Entries : e.cmd.command = "UMP_DATA" =>
        IF PriorState(e) = "ESTABLISHED_SESSION"
        THEN e.delivered = <<e.cmd.payload>> /\ e.exc = "none"
        ELSE e.delivered = <<>> /\ e.exc = "AssertionError"

\* C17: once a BYE of peer p was dispatched the session map has no entry
\* for p, whatever the state of p was and whatever the payload of the BYE,
\* and the entries of the other peers are as before.
C17_ByeRemovesEntry ==
    \A e \in Entries : e.cmd.command = "BYE" =>
        /\ ~e.after[e.from].exists
        /\ Others(e)

\* C18: the session map holds an entry for p only if an INVITATION of p was
\* dispatched since the last BYE of p.
C18_EntryOnlyAfterInvitation ==
    \A p \in Peers : sessions[p].exists => h_hist[p].invited

\* C19: no datagram makes the host leave mainloop().
C19_LoopGoesOn ==
    h_pc = "running" /\ h_raised = "none"

\* The part of C19 about the commands of a datagram that was parsed: each
\* is dispatched, whatever the ones before it did.
C19_EveryCommandDispatched ==
    \A i \in 1..Len(h_log) :
        /\ h_log[i].from = h_log[1].from
        /\ i > 1 => h_log[i].before = h_log[i - 1].after

\* ------------------------------------------------------------------------
\* Claims about construction and parsing
\* ------------------------------------------------------------------------
Aligned(r) ==
    \A i \in 1..Len(r.commands) : Len(r.commands[i].payload) % 4 = 0

\* C21: every CommandPacket that exists, constructed directly or returned
\* by CommandPacket.parse or MIDIUDPPacket.parse, has a payload whose length
\* is a multiple of 4; constructing one with any other payload raises
\* ValueError and no packet comes to exist, and a payload that is a multiple
\* of 4 is accepted as given.
C21_PayloadAligned ==
    /\ Aligned(f_made) /\ Aligned(f_parsed) /\ Aligned(f_packet)
    /\ f_made # NoParse =>
          IF Len(f_args.payload) % 4 # 0
          THEN f_made.exc = "ValueError" /\ f_made.commands = <<>>
          ELSE f_made.exc = "none" /\ f_made.commands = <<f_args>>

\* A payload of 9 bytes was refused, and a parse returned a packet of two words.
C21_Witness ==
    /\ Len(f_args.payload) = 9
    /\ f_made.exc = "ValueError"
    /\ f_parsed.exc = "none"
    /\ Len(f_parsed.commands[1].payload) = 8

\* C22: MIDIUDPPacket.parse either returns command packets whose encodings,
\* one after the other behind the magic, are the whole buffer, or raises and
\* returns no list; a buffer that does not start with the magic raises
\* ValueError.
C22_AllOrError ==
    f_packet # NoParse =>
        /\ f_packet.exc = "none" => f_buf = Magic \o Join(f_packet.commands)
        /\ f_packet.exc # "none" =>
              /\ f_packet.exc \in {"ValueError", "struct.error"}
              /\ f_packet.commands = <<>>
        /\ (Len(f_buf) < 4 \/ SubSeq(f_buf, 1, 4) # Magic) =>
              f_packet.exc = "ValueError"

\* A whole packet followed by one that declares more payload than is left:
\* the parse raised.
C22_Witness ==
    /\ f_buf = Magic
                \o CommandPacket_bytes(CommandPacket("PING", 0, PingPayload))
                \o <<255, 2, 0, 0>> \o NoOpBytes
    /\ f_packet.exc = "ValueError"

\* ------------------------------------------------------------------------
\* Claims about the UMP codec
\* ------------------------------------------------------------------------
RoundTrips ==
    /\ u_enc.exc = "none"
    /\ Len(u_enc.words) = UMP_NUM_WORDS(u_in[1][1] \div 16)
    /\ u_dec = u_msg

\* C23: for every message m of every class, with fields in their encodable
\* ranges, m.encode() returns the number of words of the family of m and
\* UMP.parse(m.encode()) is m.
C23_RoundTrip ==
    (u_msg # NoMessage /\ u_enc # NotEncoded) => RoundTrips

\* The part of C23 that is not about FlexData: the messages of the seven
\* other families round-trip.
C23_RoundTripOutsideFlexData ==
    (u_msg # NoMessage /\ u_enc # NotEncoded /\ u_msg.cls \notin FlexDataClasses) =>
        RoundTrips

PitchBend(group, channel, value) ==
    UMPValue("MIDI1PitchBend", <<group, channel, value>>)

\* The signed 14-bit value the bits 14..8 (low half) and 6..0 (high half)
\* of a word stand for.
Signed14(w) ==
    LET raw == (w[4] % 128) * 128 + (w[3] % 128)
    IN IF raw >= 8192 THEN raw - 16384 ELSE raw

\* C24: a MIDI1 pitch bend decodes to the signed 14-bit value whose low 7
\* bits are bits 14..8 and whose high 7 bits are bits 6..0 of word 0;
\* encoding is the inverse for every value in -8192..8191; 0x22E42849 is
\* the value -7000 of group 2, channel 4, both ways.
C24_PitchBend ==
    /\ (u_dec # NotParsed /\ Len(u_in) = 1 /\ u_in[1][1] \div 16 = 2
           /\ u_in[1][2] \div 16 = 14) =>
          u_dec = PitchBend(u_in[1][1] % 16, u_in[1][2] % 16, Signed14(u_in[1]))
    /\ (u_msg.cls = "MIDI1PitchBend" /\ u_enc # NotEncoded) =>
          /\ u_enc.exc = "none" /\ Len(u_enc.words) = 1
          /\ u_dec = u_msg
    /\ (u_dec # NotParsed /\ u_in = <<<<34, 228, 40, 73>>>>) =>
          u_dec = PitchBend(2, 4, -7000)
    /\ (u_msg = PitchBend(2, 4, -7000) /\ u_enc # NotEncoded) =>
          u_enc.words = <<<<34, 228, 40, 73>>>>

\* -7000 was encoded for group 2, channel 4, and decoded again.
C24_Witness ==
    /\ u_msg = PitchBend(2, 4, -7000)
    /\ u_in = <<<<34, 228, 40, 73>>>>
    /\ u_dec = PitchBend(2, 4, -7000)

\* C25: UMP.parse of one word of message type SystemRealTime returns a
\* message, whatever the status; for a status other than MIDI time code and
\* song position pointer the message is a SystemRealTime placeholder.
C25_NeverFails ==
    (u_dec # NotParsed /\ u_msg = NoMessage /\ Len(u_in) = 1
        /\ u_in[1][1] \div 16 = 1) =>
        /\ ~IsError(u_dec)
        /\ u_in[1][2] \notin {1, 2} => u_dec.cls = "SystemRealTime"

\* What holds of C25: only MIDI time code and song position pointer decode;
\* every other status raises, ValueError outside SystemRealTime.Status and
\* RecursionError inside.
C25_OnlyTwoDecode ==
    (u_dec # NotParsed /\ u_msg = NoMessage /\ Len(u_in) = 1
        /\ u_in[1][1] \div 16 = 1) =>
        u_dec.cls = CASE u_in[1][2] = 1 -> "MIDITimeCode"
                      [] u_in[1][2] = 2 -> "SongPositionPointer"
                      [] u_in[1][2] \in SystemRealTime_Status -> "RecursionError"
                      [] OTHER -> "ValueError"

\* ------------------------------------------------------------------------
\* Claims about discovery against a device that answers
\* ------------------------------------------------------------------------
\* discover() has returned without an exception.
DiscoverReturned == e_pc = "idle" /\ e_sent # <<>> /\ e_raised = "none"

\* Every slot of the device's count holds a descriptor.
Structure ==
    /\ Len(function_blocks) = dev.n
    /\ all_blocks(function_blocks)

\* C26: discover(wait_for_all_names=False) against a device that answers
\* the EndpointDiscovery with an EndpointInfoNotification of n blocks and
\* each FunctionBlockDiscovery with the FunctionBlockInfoNotification of its
\* block eventually returns, with n slots that each hold a descriptor, for
\* every n from 0 on.
C26_Terminates ==
    (e_pc = "wait_info" /\ ~e_wait) ~> (DiscoverReturned /\ Structure)

\* The same for the devices that declare one block or more.
C26_TerminatesWithBlocks ==
    (e_pc = "wait_info" /\ ~e_wait /\ dev.n > 0) ~> (DiscoverReturned /\ Structure)

\* With no block declared discover() never leaves its first loop.
C26_NoBlockNoReturn ==
    [][dev.n = 0 /\ e_pc = "wait_info" => e_pc' = "wait_info"]_vars

\* Every name is the name the device sent, and is complete.
Names ==
    /\ has_all_names(Endpoint)
    /\ name = Str(dev.name)
    /\ \A i \in 0..(Len(function_blocks) - 1) :
          function_blocks[i + 1].name = Str(dev.fb_name[i])

\* C27: discover(wait_for_all_names=True) against a device whose answers
\* (its EndpointInfoNotification, its name in chunks, and per block the
\* FunctionBlockInfoNotification and the name in chunks) are delivered once
\* each, the chunks of a name in order and the rest in any order, eventually
\* returns with has_all_names true and every name the name the device sent.
C27_NamesComplete ==
    (e_pc = "wait_info" /\ e_wait) ~> (DiscoverReturned /\ Structure /\ Names)

\* When discover() has returned from waiting for the names, they are those
\* the device sent.
C27_NamesWhenReturned ==
    DiscoverReturned /\ e_wait => Structure /\ Names

\* The name of a block was delivered before the block had a descriptor:
\* dispatch() dropped it, and discover() waits for it with nothing on its way.
C27_NameLost ==
    /\ e_pc = "wait_names"
    /\ d_flight = {}
    /\ d_seen = Len(e_sent)
    /\ dev.n > 0

\* ------------------------------------------------------------------------
\* Claims about a transport over its sessions
\* ------------------------------------------------------------------------
\* The step read a datagram that did not come from the peer.
StrangerStep ==
    /\ last_op'.op \in {"connect_step", "recv_step"}
    /\ last_op'.src # "peer"

\* C28: a datagram whose source address is not the configured peer, read
\* inside connect() or recv(), is dropped before it is parsed: whatever it
\* holds, no error is raised, no packet is sent, the call goes on waiting,
\* and session_established and the receive FIFO are as they were.
C28_StrangersIgnored ==
    [][StrangerStep => UNCHANGED <<ProgramVars, Wire, pc, raised, returned>>]_vars

\* connect() read an INVITATION_REPLY_ACCEPTED that came from another
\* address and still waits, the session not established.
C28_Witness ==
    /\ last_op.op = "connect_step"
    /\ last_op.src = "other"
    /\ last_op.rx = <<"INVITATION_REPLY_ACCEPTED">>
    /\ pc = "connect"
    /\ ~session_established
    /\ raised = "none"

\* The UMP_DATA commands among those of a datagram; each of those the peer
\* sends while the client connects decodes.
DataCount(codes) == Cardinality({i \in 1..Len(codes) : codes[i] = "UMP_DATA"})

\* The step made connect() return.
ConnectReturns == pc = "connect" /\ pc' = "idle" /\ _transport_connected'

\* What the step added to `claimed`: the decodable UMP_DATA recv() read.
NewlyClaimed == SubSeq(claimed', Len(claimed) + 1, Len(claimed'))

\* recv() returns the head of the FIFO and nothing else, and the FIFO gets
\* what recv() read: a message is returned only if the step that read it
\* put it in the FIFO.
\* C29: the decodable UMP_DATA of the datagram whose
\* INVITATION_REPLY_ACCEPTED completes connect() are in the FIFO when
\* connect() returns, and those of every datagram recv() reads afterwards go
\* to the FIFO or to the caller, so that none is lost.
C29_NoDataLost ==
    [][/\ ConnectReturns =>
             Len(rx_queue') = Len(rx_queue) + DataCount(last_op'.rx)
       /\ last_op'.op = "recv_step" /\ last_op'.src = "peer" =>
             returned' \o rx_queue' = (returned \o rx_queue) \o NewlyClaimed]_vars

\* The part of C29 about the datagrams recv() reads whose UMP_DATA all decode.
C29_KeptInRecv ==
    [][/\ last_op'.op = "recv_step"
       /\ last_op'.src = "peer"
       /\ Len(claimed') - Len(claimed) = Len(dispatched') - Len(dispatched)
       => returned' \o rx_queue' = (returned \o rx_queue) \o NewlyClaimed]_vars

\* connect() left the data that came with the reply out of the FIFO.
C29_DroppedAtHandshake ==
    /\ last_op.op = "connect_step"
    /\ pc = "idle"
    /\ _transport_connected
    /\ DataCount(last_op.rx) > 0
    /\ rx_queue = <<>>
    /\ returned = <<>>

\* connect() has just returned.
ConnectReturned ==
    /\ last_op.op = "connect_step"
    /\ pc = "idle"
    /\ _transport_connected
    /\ raised = "none"

\* C30: when connect() returns, on a transport that was used before as on
\* a new one, the outbound sequence counter is 0 and the receive FIFO is
\* empty.
C30_FreshSession == ConnectReturned => tx_seq = 0 /\ rx_queue = <<>>

\* The same of the first session of a transport.
C30_FirstSessionFresh ==
    ConnectReturned /\ txcount["INVITATION"] = 1 => tx_seq = 0 /\ rx_queue = <<>>

\* The second session starts with the counter where the first left it, and
\* with a message of the first session in the FIFO.
C30_CounterKept == ConnectReturned /\ txcount["BYE"] = 1 /\ tx_seq = 1
C30_QueueKept == ConnectReturned /\ txcount["BYE"] = 1 /\ rx_queue # <<>>

====
